---- MODULE Spec2Model ----
(***************************************************************************)
(* A model of akalin/aks-go: the AKS primality test.                       *)
(*                                                                         *)
(*   - integer utilities and number theory (package aks, arith.go)         *)
(*   - the Kronecker-packed polynomial engine bigIntPoly (bigintpoly.go)   *)
(*   - the witness driver GetAKSWitness and its workers (aks.go)           *)
(*   - the command line orchestrator (bin-src/aks/aks.go)                  *)
(*                                                                         *)
(* big.Int values that the code only uses as numbers are integers here.    *)
(* The packed integer phi of a bigIntPoly is modelled at the level of its  *)
(* limbs: a backing array of cap limbs of which the first len are the      *)
(* value, because the code reads and writes the limbs directly.            *)
(***************************************************************************)
EXTENDS Integers, Sequences, FiniteSets, TLC

VARIABLES
    call, ret, apc,                 \* a call of a pure arithmetic function
    polyN, polyR, heap, last, ops,  \* the polynomial engine under test
    word,                           \* the same calls made on WordPoly objects
    drv,                            \* main / GetAKSWitness: locals and position
    numberCh, resultCh, closed,     \* the two channels; numberCh was closed
    wrk,                            \* the testAKSWitnesses goroutines
    tested, received                \* history: numbers tested, results received

arithVars == <<call, ret, apc>>
polyVars == <<polyN, polyR, heap, last, ops, word>>
searchVars == <<drv, numberCh, resultCh, closed, wrk, tested, received>>
vars == <<call, ret, apc, polyN, polyR, heap, last, ops, word,
          drv, numberCh, resultCh, closed, wrk, tested, received>>

(***************************************************************************)
(* Bounds of the model.                                                    *)
(***************************************************************************)
\* floorRoot is called with x in -1..MaxRadicand and k in 0..MaxIndex.
MaxRadicand == 130
MaxIndex == 4
\* The polynomial engine is built with N in 2..MaxPolyN and R in 2..MaxPolyR,
\* and takes at most MaxOps calls, with a in 0..MaxA and k in 0..MaxK.
MaxPolyN == 3
MaxPolyR == 3
MaxOps == 3
MaxA == 2
MaxK == 3
\* The size of Word in bits (32 in the program); a uint64 has twice as many.
WORD_BITS == 2
\* GetAKSWitness is called for n in 2..MaxSearchN with start in 0..MaxStart,
\* end in 0..MaxEnd or end = M, and 1..MaxWorkers workers; main is run for n
\* in 0..MaxMainN.
MaxSearchN == 8
MaxStart == 2
MaxEnd == 3
MaxWorkers == 2
MaxMainN == 40
MaxFairN == 4
MinLargeN == 84119
MaxLargeN == 84123
\* The precondition calls: arguments down to -MaxBelow, trialDivide of n up to
\* MaxDividend, term lists of at most MaxTerms terms with coefficients of
\* absolute value up to MaxCoeff and degrees up to MaxDeg, powers up to
\* MaxPower and moduli of absolute value up to MaxModulus.
MaxBelow == 2
MaxDividend == 30
MaxTerms == 2
MaxCoeff == 2
MaxDeg == 2
MaxPower == 4
MaxModulus == 2
\* The IntPoly variables start from terms with coefficients up to
\* MaxStoreCoeff and degrees up to MaxStoreDeg, and MaxStoreOps calls are
\* made on them, Pow with powers up to MaxStorePower.
MaxStoreCoeff == 1
MaxStoreDeg == 1
MaxStoreOps == 2
MaxStorePower == 2
MaxFactorN == 2000
MaxStopAt == 2
MaxBoundedN == 150
MaxUpperBound == 12
MaxFirstN == 200
MaxM == 16
MaxModulusN == 70
MaxBoundN == 20
MaxBoundR == 120
MaxOrderA == 12
MaxOrderN == 130
MaxOrderP == 13
MaxOrderK == 4
\* processPrimeFactor is stepped for p^k with k up to MaxLoopK, for at most
\* MaxIterations iterations of its loop.
MaxLoopK == 3
MaxIterations == 4

(***************************************************************************)
(* Plain integer helpers (math/big operations used as numbers).            *)
(***************************************************************************)
\* big.Int.Exp(x, y, nil): x^y.
RECURSIVE IntExp(_, _)
IntExp(x, y) == IF y = 0 THEN 1 ELSE x * IntExp(x, y - 1)

\* big.Int.BitLen(): the number of bits of x, 0 for x = 0.
RECURSIVE BitLen(_)
BitLen(x) == IF x = 0 THEN 0 ELSE 1 + BitLen(x \div 2)

\* big.Int.Exp(x, y, m): x^y mod m by square and multiply.
RECURSIVE ModExp(_, _, _)
ModExp(x, y, m) ==
    IF y = 0 THEN 1 % m
    ELSE LET h == ModExp(x, y \div 2, m)
             s == (h * h) % m
         IN  IF y % 2 = 1 THEN (s * (x % m)) % m ELSE s

\* big.Int.GCD(nil, nil, a, b).
RECURSIVE GCD(_, _)
GCD(a, b) == IF b = 0 THEN a ELSE GCD(b, a % b)

min(x, y) == IF x < y THEN x ELSE y

max(x, y) == IF x > y THEN x ELSE y

(***************************************************************************)
(* floorRoot                                                               *)
(***************************************************************************)
\* The preconditions floorRoot panics on.
floorRootPanics(x, k) == x < 0 \/ k <= 0

\* A wrong initial exponent: floor instead of ceil of BitLen(x)/k.
floorRootInitialExpFloor(x, k) == BitLen(x) \div k

\* p = ceil((floor(lg(x)) + 1)/k): DivMod of BitLen by k, plus one when the
\* remainder is positive.
floorRootInitialExp(x, k) ==
    LET p == BitLen(x) \div k
        r == BitLen(x) % k
    IN  IF r > 0 THEN p + 1 ELSE p

\* The Newton loop: for y > 1 { z = ((k-1)y + x/y^(k-1))/k; if z >= y
\* return y; y = z }; return one.
RECURSIVE floorRootLoop(_, _, _)
floorRootLoop(x, k, y) ==
    IF y > 1
    THEN LET z1 == (k - 1) * y
             z2 == x \div IntExp(y, k - 1)
             z == (z1 + z2) \div k
         IN  IF z >= y THEN y ELSE floorRootLoop(x, k, z)
    ELSE 1

\* floorRoot(x, k) for x >= 0 and k > 0.
floorRoot(x, k) ==
    IF x = 0 THEN 0
    ELSE floorRootLoop(x, k, IntExp(2, floorRootInitialExp(x, k)))

(***************************************************************************)
(* trialDivide and the functions built on it.  trialDivide is modelled by  *)
(* the sequence of <<prime, multiplicity>> pairs it passes to factorFn;    *)
(* stopAt is the call at which factorFn returns false, Never if it always  *)
(* returns true.                                                           *)
(***************************************************************************)
\* A nil *big.Int.
Nil == -1

\* The panic of a function that returns a number.
Panic == -2

\* A factorFunction that returns true at every call.
Never == 0

\* factorFn's result taken to be true at every call.
returnsFalseIgnored(stopAt, calls) == FALSE

\* !factorFn(d, &m) at the given call of factorFn.
returnsFalse(stopAt, calls) == stopAt # Never /\ calls >= stopAt

\* The number of times factorOut's loop divides t by d.
RECURSIVE Multiplicity(_, _)
Multiplicity(t, d) == IF t % d = 0 THEN 1 + Multiplicity(t \div d, d) ELSE 0

\* factorOut(d) when d divides t, m times: t = t/d^m, upperBound =
\* min(upperBound, t), and factorFn(d, m) is called.
factoredOut(st, d, m, stopAt) ==
    [t |-> st.t \div IntExp(d, m),
     upperBound |-> min(st.upperBound, st.t \div IntExp(d, m)),
     out |-> Append(st.out, <<d, m>>),
     stopped |-> returnsFalse(stopAt, Len(st.out) + 1)]

factorOut(st, d, stopAt) ==
    IF st.t % d # 0 THEN st ELSE factoredOut(st, d, Multiplicity(st.t, d), stopAt)

\* if d.Cmp(upperBound) <= 0 && !factorOut(d) { return }.
tryPrime(st, d, stopAt) ==
    IF ~st.stopped /\ d <= st.upperBound THEN factorOut(st, d, stopAt) ELSE st

\* The wheel read from its first entry at d = 11.
mod30WheelFromFirst == <<2, 4, 2, 4, 6, 2, 6, 4>>

mod30Wheel == <<4, 2, 4, 2, 4, 6, 2, 6>>

\* for i, d := 1, eleven; d.Cmp(upperBound) <= 0; { ... }.
RECURSIVE wheelLoop(_, _, _, _)
wheelLoop(st, d, i, stopAt) ==
    IF st.stopped \/ d > st.upperBound THEN st
    ELSE wheelLoop(factorOut(st, d, stopAt), d + mod30Wheel[i + 1],
                   (i + 1) % Len(mod30Wheel), stopAt)

\* factorFn(t, one) called although factorFn had returned false.
lastFactorAfterStop(st) ==
    IF st.t # 1 THEN Append(st.out, <<st.t, 1>>) ELSE st.out

\* if t.Cmp(one) != 0 { factorFn(t, one) }.
lastFactor(st) ==
    IF ~st.stopped /\ st.t # 1 THEN Append(st.out, <<st.t, 1>>) ELSE st.out

\* if n.Sign() < 0 { panic("negative n") }.
trialDividePanics(n) == n < 0

\* trialDivide from t.Set(n) on, with the upperBound it has by then.
trialDivideUpTo(n, stopAt, upperBound) ==
    lastFactor(
      wheelLoop(
        tryPrime(tryPrime(tryPrime(tryPrime(
          [t |-> n, upperBound |-> upperBound, out |-> <<>>, stopped |-> FALSE],
          2, stopAt), 3, stopAt), 5, stopAt), 7, stopAt),
        11, 1, stopAt))

\* trialDivide(n, factorFn, upperBound) for n >= 0; upperBound may be Nil.
trialDivide(n, stopAt, upperBound) ==
    IF n = 0 THEN <<>>
    ELSE trialDivideUpTo(n, stopAt,
                         IF upperBound = Nil THEN floorRoot(n, 2) ELSE upperBound)

calculateEulerPhiPrimePower(p, k) == IntExp(p, k - 1) * (p - 1)

\* phi.Mul(phi, calculateEulerPhiPrimePower(q, e)) for the factors
\* fs[i..].
RECURSIVE eulerPhiOf(_, _)
eulerPhiOf(fs, i) ==
    IF i > Len(fs) THEN 1
    ELSE calculateEulerPhiPrimePower(fs[i][1], fs[i][2]) * eulerPhiOf(fs, i + 1)

calculateEulerPhi(n) == eulerPhiOf(trialDivide(n, Never, Nil), 1)

\* for x.Cmp(one) != 0 { o.Mul(o, q); x.Exp(&x, q, &n) }.
RECURSIVE orderLoop(_, _, _, _)
orderLoop(o, x, q, n) ==
    IF x = 1 THEN o ELSE orderLoop(o * q, ModExp(x, q, n), q, n)

\* processPrimeFactor(q, e) of calculateMultiplicativeOrderPrimePower, with
\* n = p^k and t = Phi(p^k): the new o.
processPrimeFactor(o, a, n, t, q, e) ==
    orderLoop(o, ModExp(a, t \div IntExp(q, e), n), q, n)

\* processPrimeFactor for the factors fs[i..], in order.
RECURSIVE processPrimeFactors(_, _, _, _, _, _)
processPrimeFactors(o, a, n, t, fs, i) ==
    IF i > Len(fs) THEN o
    ELSE processPrimeFactors(processPrimeFactor(o, a, n, t, fs[i][1], fs[i][2]),
                             a, n, t, fs, i + 1)

calculateMultiplicativeOrderPrimePower(a, p, k) ==
    processPrimeFactors(
        IF k > 1
        THEN processPrimeFactor(1, a, IntExp(p, k), calculateEulerPhiPrimePower(p, k),
                                p, k - 1)
        ELSE 1,
        a, IntExp(p, k), calculateEulerPhiPrimePower(p, k),
        trialDivide(p - 1, Never, Nil), 1)

\* o.Mul(o, oq) without the division by the gcd.
lcmOrderWithoutGCD(o, oq) == o * oq

\* o = lcm(o, oq).
lcmOrder(o, oq) == (o \div GCD(o, oq)) * oq

RECURSIVE multiplicativeOrderOf(_, _, _, _)
multiplicativeOrderOf(o, a, fs, i) ==
    IF i > Len(fs) THEN o
    ELSE multiplicativeOrderOf(
             lcmOrder(o, calculateMultiplicativeOrderPrimePower(a, fs[i][1], fs[i][2])),
             a, fs, i + 1)

calculateMultiplicativeOrder(a, n) ==
    multiplicativeOrderOf(1, a, trialDivide(n, Never, Nil), 1)

\* An upper bound of ceil(lg(n))^2 only, below the first r that is tried.
upperBoundSquared(n) == max(IntExp(BitLen(n), 2), 3)

\* max(ceil(lg(n))^5, 3), or 8*ceil(lg(n))^2 if that is smaller and n is 3
\* or 5 mod 8; ceil(lg(n)) is taken to be n.BitLen().
calculateAKSModulusUpperBound(n) ==
    IF n % 8 = 3 \/ n % 8 = 5
    THEN min(max(IntExp(BitLen(n), 5), 3), IntExp(BitLen(n), 2) * 8)
    ELSE max(IntExp(BitLen(n), 5), 3)

\* The loop of CalculateAKSModulus from r on; Panic past the upper bound.
RECURSIVE aksModulusFrom(_, _, _, _)
aksModulusFrom(n, r, ceilLgNSq, rUpperBound) ==
    IF r >= rUpperBound THEN Panic
    ELSE IF GCD(n, r) = 1 /\ calculateMultiplicativeOrder(n, r) > ceilLgNSq THEN r
    ELSE aksModulusFrom(n, r + 1, ceilLgNSq, rUpperBound)

CalculateAKSModulus(n) ==
    aksModulusFrom(n, BitLen(n) * BitLen(n) + 2, BitLen(n) * BitLen(n),
                   calculateAKSModulusUpperBound(n))

CalculateAKSUpperBound(n, r) == floorRoot(calculateEulerPhi(r), 2) * BitLen(n) + 1

\* The callback without its test q < n.
firstFactorNotBelowN(fs, n, M) ==
    IF fs # <<>> /\ fs[1][1] < M THEN fs[1][1] ELSE Nil

\* The callback of GetFirstFactorBelow on the first factor q, if any.
firstFactor(fs, n, M) ==
    IF fs # <<>> /\ fs[1][1] < M /\ fs[1][1] < n THEN fs[1][1] ELSE Nil

\* The calls of GetFirstFactorBelow's callback, which returns false at its
\* first call; &mMinusOne is never nil.
firstFactorCalls(n, M) == IF n = 0 THEN <<>> ELSE trialDivideUpTo(n, 1, M - 1)

GetFirstFactorBelow(n, M) == firstFactor(firstFactorCalls(n, M), n, M)

(***************************************************************************)
(* Limb arithmetic: math/big's nat operations, as the polynomial engine    *)
(* uses them on the backing array of phi.  A limb sequence is little       *)
(* endian; recursion is by halving the index range.                        *)
(***************************************************************************)
\* The number of values of a big.Word (2^64 or 2^32 in the program).
WordBase == 2

\* len(x.Bits()): the number of limbs of the value x.
RECURSIVE LimbLen(_)
LimbLen(x) == IF x = 0 THEN 0 ELSE 1 + LimbLen(x \div WordBase)

\* The limb at (0-based) position j of the value x.
LimbOf(x, j) == (x \div IntExp(WordBase, j)) % WordBase

\* The first n limbs of the value x.
LimbsOf(x, n) == SubSeq([j \in 1..n |-> LimbOf(x, j - 1)], 1, n)

\* nat.norm(): the length of s[1..n] without its high zero limbs.
RECURSIVE HighestNonZero(_, _, _)
HighestNonZero(s, lo, hi) ==
    IF lo > hi THEN 0
    ELSE IF lo = hi THEN (IF s[lo] # 0 THEN lo ELSE 0)
    ELSE LET mid == (lo + hi) \div 2
             h == HighestNonZero(s, mid + 1, hi)
         IN  IF h # 0 THEN h ELSE HighestNonZero(s, lo, mid)

NormLen(s, n) == HighestNonZero(s, 1, n)

\* The sum of f[lo..hi].
RECURSIVE SumRange(_, _, _)
SumRange(f, lo, hi) ==
    IF lo > hi THEN 0
    ELSE IF lo = hi THEN f[lo]
    ELSE LET mid == (lo + hi) \div 2
         IN  SumRange(f, lo, mid) + SumRange(f, mid + 1, hi)

\* Carry propagation over the column sums c[lo..hi] with carry cin: the
\* limbs and the carry out.
RECURSIVE CarryProp(_, _, _, _)
CarryProp(c, lo, hi, cin) ==
    IF lo > hi THEN [limbs |-> <<>>, carry |-> cin]
    ELSE IF lo = hi
    THEN [limbs |-> <<(c[lo] + cin) % WordBase>>,
          carry |-> (c[lo] + cin) \div WordBase]
    ELSE LET mid == (lo + hi) \div 2
             l == CarryProp(c, lo, mid, cin)
             h == CarryProp(c, mid + 1, hi, l.carry)
         IN  [limbs |-> l.limbs \o h.limbs, carry |-> h.carry]

\* nat.mul(x, y): the len(x)+len(y) limbs of the product (none when a
\* factor is zero).
NatMul(x, y) ==
    LET m == Len(x)
        n == Len(y)
        cols == [j \in 1..(m + n) |->
                   SumRange([i \in max(1, j + 1 - n)..min(m, j) |->
                                x[i] * y[j + 1 - i]],
                            max(1, j + 1 - n), min(m, j))]
    IN  IF m = 0 \/ n = 0 THEN <<>>
        ELSE CarryProp(cols, 1, m + n, 0).limbs

\* nat.add(x, y): max(len)+1 limbs of the sum; a copy of the other operand
\* when one is zero.
NatAdd(x, y) ==
    LET m == max(Len(x), Len(y))
        cols == [j \in 1..m |->
                   (IF j <= Len(x) THEN x[j] ELSE 0) +
                   (IF j <= Len(y) THEN y[j] ELSE 0)]
        s == CarryProp(cols, 1, m, 0)
    IN  IF Len(x) = 0 THEN y
        ELSE IF Len(y) = 0 THEN x
        ELSE Append(s.limbs, s.carry)

\* The backing array bits with limbs written from (0-based) offset off.
WriteAt(bits, off, limbs) ==
    SubSeq([j \in 1..Len(bits) |->
               IF j > off /\ j <= off + Len(limbs) THEN limbs[j - off]
               ELSE bits[j]],
           1, Len(bits))

\* The backing array bits with the limbs at (0-based) [from, to) zeroed.
ZeroRange(bits, from, to) ==
    SubSeq([j \in 1..Len(bits) |-> IF j > from /\ j <= to THEN 0 ELSE bits[j]],
           1, Len(bits))

(***************************************************************************)
(* bigIntPoly: [R, k, bits, len], phi being the first len limbs of bits.   *)
(***************************************************************************)
\* The limbs of the value phi.
PhiLimbs(p) == SubSeq(p.bits, 1, p.len)

\* newBigIntPoly(N, R): the zero polynomial, k limbs a coefficient, zeroed
\* storage for 2*R coefficients.
newBigIntPoly(N, R) ==
    LET maxCoefficient == ((N - 1) * (N - 1)) * R
        k == LimbLen(maxCoefficient)
        maxWordCount == 2 * R * k
    IN  [R |-> R, k |-> k, bits |-> [j \in 1..maxWordCount |-> 0], len |-> 0]

getCoefficientCount(p) ==
    IF p.len = 0 THEN 0
    ELSE (p.len \div p.k) + (IF p.len % p.k # 0 THEN 1 ELSE 0)

\* setCoefficientCount: phi.SetBits(phi.Bits()[0 : coefficientCount*k]),
\* which normalizes.
setCoefficientCount(p, coefficientCount) ==
    [p EXCEPT !.len = NormLen(p.bits, coefficientCount * p.k)]

\* getCoefficient(i): the value of the k limbs at offset i*k of the backing
\* array, whatever they hold.
getCoefficient(p, i) ==
    SumRange([j \in 1..p.k |-> p.bits[i * p.k + j] * IntExp(WordBase, j - 1)],
             1, p.k)

\* The write of the value v through the big.Int view getCoefficient(i)
\* returned (c.Set, c.Mod): the limbs of v, the rest of the slot untouched.
storeCoefficient(p, i, v) ==
    [p EXCEPT !.bits = WriteAt(p.bits, i * p.k, LimbsOf(v, LimbLen(v)))]

\* A commitCoefficient that clears nothing.
commitCoefficientNoClear(p, i, clen) == p

\* commitCoefficient(c) for the view c of coefficient i, c having clen
\* limbs: clears the limbs clen..k of the slot.
commitCoefficient(p, i, clen) ==
    [p EXCEPT !.bits = ZeroRange(p.bits, i * p.k + clen, (i + 1) * p.k)]

\* c := p.getCoefficient(i); c.Set(v); p.commitCoefficient(c).
setCoefficient(p, i, v) ==
    commitCoefficient(storeCoefficient(p, i, v), i, LimbLen(v))

\* for i := 1; i <= kModR; i++ { c.Set(0); commitCoefficient(c) }.
RECURSIVE clearCoefficients(_, _, _)
clearCoefficients(p, lo, hi) ==
    IF lo > hi THEN p
    ELSE IF lo = hi THEN setCoefficient(p, lo, 0)
    ELSE LET mid == (lo + hi) \div 2
             done == clearCoefficients(p, lo, mid)
         IN  IF done.len >= 0 THEN clearCoefficients(done, mid + 1, hi) ELSE p

\* bigIntPoly.Set(a, k, N): coefficient 0 gets a mod N, coefficients
\* 1..kModR are zeroed, coefficient kModR gets 1, the count is kModR + 1.
SetPoly(p, a, k, N) ==
    LET kModR == k % p.R
        p0 == setCoefficient(p, 0, a % N)
        p1 == clearCoefficients(p0, 1, kModR)
        p2 == setCoefficient(p1, kModR, 1)
    IN  setCoefficientCount(p2, kModR + 1)

\* phi := limbs, written into the backing array of p from its start and
\* normalized (the result of a big.Int operation with receiver p.phi).
setPhiLimbs(p, limbs) ==
    [p EXCEPT !.bits = WriteAt(p.bits, 0, limbs),
              !.len = NormLen(limbs, Len(limbs))]

\* bigIntPoly.Eq: p.phi.Cmp(&q.phi) == 0.
Eq(p, q) ==
    /\ p.len = q.len
    /\ \A j \in 1..p.len : p.bits[j] = q.bits[j]

(***************************************************************************)
(* mul and Pow work on several polynomials at once and swap their phi, so  *)
(* they take the heap h of polynomial objects and the names of the         *)
(* objects: q may be the same name as p.                                   *)
(***************************************************************************)
\* tmp.phi.Mul(&p.phi, &q.phi): the product is written into tmp's backing
\* array.
mulPhi(h, p, q, tmp) ==
    [h EXCEPT ![tmp] = setPhiLimbs(h[tmp], NatMul(PhiLimbs(h[p]), PhiLimbs(h[q])))]

\* x.phi, y.phi = y.phi, x.phi.
swapPhi(h, x, y) ==
    [h EXCEPT ![x].bits = h[y].bits, ![x].len = h[y].len,
              ![y].bits = h[x].bits, ![y].len = h[x].len]

\* A mul without the fold of the limbs above R*k.
foldPolySkipped(p) == p

\* Mod p by X^R - 1: when phi is longer than R*k limbs, phi.Add(lo, hi) of
\* its limbs below and above R*k, in place.
foldPoly(p) ==
    IF p.len > p.R * p.k
    THEN setPhiLimbs(p, NatAdd(SubSeq(p.bits, 1, NormLen(p.bits, p.R * p.k)),
                               SubSeq(p.bits, p.R * p.k + 1, p.len)))
    ELSE p

\* Clear the unused limbs of the leading coefficient: when len is no
\* multiple of k, zero the limbs from len to the next multiple of k.
clearLeadingUnused(p) ==
    IF p.len % p.k # 0
    THEN [p EXCEPT !.bits = ZeroRange(p.bits, p.len,
                                      p.len + p.k - (p.len % p.k))]
    ELSE p

\* p.commitCoefficient(p.getCoefficient(oldCoefficientCount - 1)): the view
\* is as long as the limbs of the slot up to its highest non-zero limb.
commitLeading(p) ==
    LET i == getCoefficientCount(p) - 1
        clen == HighestNonZero([j \in 1..p.k |-> p.bits[i * p.k + j]], 1, p.k)
    IN  IF i >= 0 THEN commitCoefficient(p, i, clen) ELSE p

\* A reduction that leaves every coefficient as it is.
reduceCoefficientSkipped(p, i, N) == p

\* One round of the loop that mods p by N: a coefficient c >= N is
\* replaced by c mod N and committed.
reduceCoefficient(p, i, N) ==
    LET c == getCoefficient(p, i)
    IN  IF c >= N THEN setCoefficient(p, i, c % N) ELSE p

\* The rounds lo..hi of that loop.
RECURSIVE reduceCoefficients(_, _, _, _)
reduceCoefficients(p, lo, hi, N) ==
    IF lo > hi THEN p
    ELSE IF lo = hi THEN reduceCoefficient(p, lo, N)
    ELSE LET mid == (lo + hi) \div 2
             done == reduceCoefficients(p, lo, mid, N)
         IN  IF done.len >= 0 THEN reduceCoefficients(done, mid + 1, hi, N)
             ELSE p

\* newCoefficientCount: one more than the last i < count with a non-zero
\* coefficient, 0 without one.
lastNonZeroCoefficient(p, count) ==
    HighestNonZero([i \in 1..count |-> getCoefficient(p, i - 1)], 1, count)

\* The scratch of the loop: tmp2.QuoRem(&c, &N, &tmp3) leaves the quotient
\* in tmp's coefficient 0 and the remainder in tmp's coefficient 1, for the
\* last coefficient that was reduced.
quoRem(t, c, N) == storeCoefficient(storeCoefficient(t, 0, c \div N), 1, c % N)

\* One more than the last i < count whose coefficient is >= N, 0 without
\* one.
lastReduced(p, count, N) ==
    HighestNonZero([i \in 1..count |->
                       IF getCoefficient(p, i - 1) >= N THEN 1 ELSE 0], 1, count)

quoRemLast(t, p, i, N) == IF i = 0 THEN t ELSE quoRem(t, getCoefficient(p, i - 1), N)

quoRemScratch(t, p, count, N) == quoRemLast(t, p, lastReduced(p, count, N), N)

\* bigIntPoly.mul: p <- p*q mod (N, X^R - 1) with the scratch tmp.
\* The steps of mul on the product p holds after the swap, in the order of
\* the code: fold and clear the unused limbs; commit the leading
\* coefficient; mod the oldCoefficientCount coefficients by N; set the
\* count to newCoefficientCount.
trimCoefficients(reduced, oldCoefficientCount) ==
    setCoefficientCount(reduced,
                        lastNonZeroCoefficient(reduced, oldCoefficientCount))

modCoefficients(committed, oldCoefficientCount, N) ==
    trimCoefficients(reduceCoefficients(committed, 0, oldCoefficientCount - 1, N),
                     oldCoefficientCount)

mulCommitted(h1, p, N, tmp, committed, oldCoefficientCount) ==
    [h1 EXCEPT ![p] = modCoefficients(committed, oldCoefficientCount, N),
               ![tmp] = quoRemScratch(h1[tmp], committed, oldCoefficientCount, N)]

mulFolded(h1, p, N, tmp, folded) ==
    mulCommitted(h1, p, N, tmp, commitLeading(folded), getCoefficientCount(folded))

mulSwapped(h1, p, N, tmp) ==
    mulFolded(h1, p, N, tmp, clearLeadingUnused(foldPoly(h1[p])))

mul(h, p, q, N, tmp) ==
    mulSwapped(swapPhi(mulPhi(h, p, q, tmp), p, tmp), p, N, tmp)

\* tmp1.phi.Set(&p.phi): the limbs of p.phi copied into tmp1's array.
copyPhi(h, tmp1, p) ==
    [h EXCEPT ![tmp1] = setPhiLimbs(h[tmp1], PhiLimbs(h[p]))]

\* A Pow that takes every bit of the exponent as set.
BitAlwaysSet(x, i) == 1

\* big.Int.Bit(i).
Bit(x, i) == (x \div IntExp(2, i)) % 2

\* A Pow that multiplies the other way round: p.mul(tmp1, N, tmp2).
powBitOntoBase(sq, p, N, tmp1, tmp2, i) ==
    IF Bit(N, i) # 0 THEN mul(sq, p, tmp1, N, tmp2) ELSE sq

\* if N.Bit(i) != 0 { tmp1.mul(p, N, tmp2) }, after the squaring.
powBit(sq, p, N, tmp1, tmp2, i) ==
    IF Bit(N, i) # 0 THEN mul(sq, tmp1, p, N, tmp2) ELSE sq

\* The loop of Pow for the bits i..0 of N: square tmp1, and multiply it by
\* p when the bit is set.
RECURSIVE powLoop(_, _, _, _, _, _)
powLoop(h, p, N, tmp1, tmp2, i) ==
    IF i < 0 \/ DOMAIN h = {} THEN h
    ELSE powLoop(powBit(mul(h, tmp1, tmp1, N, tmp2), p, N, tmp1, tmp2, i),
                 p, N, tmp1, tmp2, i - 1)

\* bigIntPoly.Pow(N, tmp1, tmp2): p <- p^N mod (N, X^R - 1).
Pow(h, p, N, tmp1, tmp2) ==
    swapPhi(powLoop(copyPhi(h, tmp1, p), p, N, tmp1, tmp2, BitLen(N) - 2),
            p, tmp1)

\* o.Set(a, k, N) on the object o of the heap.
SetIn(h, o, a, k, N) == [h EXCEPT ![o] = SetPoly(h[o], a, k, N)]

\* isWitness := tmp1.Eq(tmp2), the negation dropped.
witnessVerdictNegated(h, tmp1, tmp2) ==
    [heap |-> h, isWitness |-> Eq(h[tmp1], h[tmp2])]

\* isWitness := !tmp1.Eq(tmp2).
witnessVerdict(h, tmp1, tmp2) ==
    [heap |-> h, isWitness |-> ~Eq(h[tmp1], h[tmp2])]

\* isAKSWitness(n, a, tmp1, tmp2, tmp3): the heap afterwards and the
\* verdict, (X + a)^n # X^n + a mod (n, X^r - 1).
isAKSWitness(h, n, a, tmp1, tmp2, tmp3) ==
    witnessVerdict(SetIn(Pow(SetIn(h, tmp1, a, 1, n), tmp1, n, tmp2, tmp3),
                         tmp2, a, n, n),
                   tmp1, tmp2)

(***************************************************************************)
(* WordPoly: a polynomial is its array of R Word coefficients,             *)
(* coeffs[0..R-1].  A call works on a state [heap, overflow, isWitness]:   *)
(* the coefficient arrays of the objects, whether a uint64 or a Word has   *)
(* lost bits so far, and the last verdict.                                 *)
(***************************************************************************)
\* Word(x): x as a Word.
Word(x) == x % IntExp(2, WORD_BITS)

\* uint64(x): x in twice the bits of a Word.
uint64(x) == x % IntExp(2, 2 * WORD_BITS)

\* useWordFunctions := (n.Cmp(isAKSWitnessWordThreshold) < 0).
useWordFunctions(n) == n < IntExp(2, WORD_BITS)

\* len(p.coeffs).
wordLen(coeffs) == Cardinality(DOMAIN coeffs)

NewWordPoly(N, R) == [i \in 0..(R - 1) |-> 0]

\* p.Set(a, k, N): a % N at 0, zero elsewhere, and then 1 at k % R.
wordSet(coeffs, a, k, N) ==
    [i \in DOMAIN coeffs |->
        IF i = k % wordLen(coeffs) THEN 1 ELSE IF i = 0 THEN a % N ELSE 0]

\* p.Eq(q).
wordEq(p, q) == \A i \in DOMAIN p : p[i] = q[i]

\* The product of two coefficients computed in a Word.
wordProductNarrow(x, y) == Word(x * y)

\* e := uint64(p.coeffs[i]) * uint64(q.coeffs[j]).
wordProduct(x, y) == uint64(x * y)

\* e %= uint64(N), after the product.
wordTerm(x, y, N) == wordProduct(x, y) % N

\* e += uint64(tmp.coeffs[k]).
wordSum(e, c) == uint64(e + c)

\* The statements on e, then tmp.coeffs[k] = Word(e), and whether one of
\* them lost bits.
wordAccumulate(acc, x, y, k, N) ==
    [coeffs |-> [acc.coeffs EXCEPT
                    ![k] = Word(wordSum(wordTerm(x, y, N), acc.coeffs[k]) % N)],
     overflow |-> \/ acc.overflow
                  \/ wordProduct(x, y) # x * y
                  \/ wordSum(wordTerm(x, y, N), acc.coeffs[k])
                        # wordTerm(x, y, N) + acc.coeffs[k]
                  \/ Word(wordSum(wordTerm(x, y, N), acc.coeffs[k]) % N)
                        # wordSum(wordTerm(x, y, N), acc.coeffs[k]) % N]

\* The index k of the two inner loops: i + j for j < R - i, j - (R - i) from
\* R - i on.
wordIndex(i, j, R) == IF j < R - i THEN i + j ELSE j - (R - i)

\* The loops of mul from the pair (i, j) on.
RECURSIVE wordMulLoop(_, _, _, _, _, _)
wordMulLoop(acc, p, q, N, i, j) ==
    IF i >= wordLen(p) THEN acc
    ELSE IF j >= wordLen(p) THEN wordMulLoop(acc, p, q, N, i + 1, 0)
    ELSE wordMulLoop(wordAccumulate(acc, p[i], q[j], wordIndex(i, j, wordLen(p)), N),
                     p, q, N, i, j + 1)

\* p.coeffs, tmp.coeffs = tmp.coeffs, p.coeffs, with the product in tmp.
wordSwapped(st, p, tmp, product) ==
    [st EXCEPT !.heap = [st.heap EXCEPT ![p] = product.coeffs, ![tmp] = st.heap[p]],
               !.overflow = product.overflow]

\* p.mul(q, N, tmp).
wordMul(st, p, q, N, tmp) ==
    wordSwapped(st, p, tmp,
                wordMulLoop([coeffs |-> [i \in DOMAIN st.heap[tmp] |-> 0],
                             overflow |-> st.overflow],
                            st.heap[p], st.heap[q], N, 0, 0))

\* The highest set bit of N, from WORD_BITS - 1 down; -1 when there is none.
RECURSIVE wordHighestBit(_, _)
wordHighestBit(N, i) ==
    IF i >= 0 /\ Bit(N, i) = 0 THEN wordHighestBit(N, i - 1) ELSE i

\* if (N & (1 << uint(i))) != 0 { tmp1.mul(p, N, tmp2) }, after the squaring.
wordPowBit(sq, p, N, tmp1, tmp2, i) ==
    IF Bit(N, i) # 0 THEN wordMul(sq, tmp1, p, N, tmp2) ELSE sq

\* for i--; i >= 0; i-- { ... }.
RECURSIVE wordPowLoop(_, _, _, _, _, _)
wordPowLoop(st, p, N, tmp1, tmp2, i) ==
    IF i < 0 THEN st
    ELSE wordPowLoop(wordPowBit(wordMul(st, tmp1, tmp1, N, tmp2), p, N, tmp1, tmp2, i),
                     p, N, tmp1, tmp2, i - 1)

\* The copy of p.coeffs into tmp1.coeffs.
wordCopy(st, tmp1, p) == [st EXCEPT !.heap[tmp1] = st.heap[p]]

\* p.coeffs, tmp1.coeffs = tmp1.coeffs, p.coeffs.
wordSwap(st, p, tmp1) ==
    [st EXCEPT !.heap = [st.heap EXCEPT ![p] = st.heap[tmp1], ![tmp1] = st.heap[p]]]

\* p.Pow(N, tmp1, tmp2).
wordPow(st, p, N, tmp1, tmp2) ==
    wordSwap(wordPowLoop(wordCopy(st, tmp1, p), p, N, tmp1, tmp2,
                         wordHighestBit(N, WORD_BITS - 1) - 1),
             p, tmp1)

\* o.Set(a, k, N) on the object o.
wordSetIn(st, o, a, k, N) == [st EXCEPT !.heap[o] = wordSet(st.heap[o], a, k, N)]

\* isWitness := !tmp1.Eq(tmp2).
wordVerdict(st, tmp1, tmp2) ==
    [st EXCEPT !.isWitness = ~wordEq(st.heap[tmp1], st.heap[tmp2])]

\* isAKSWitnessWord(n, a, tmp1, tmp2, tmp3).
isAKSWitnessWord(st, n, a, tmp1, tmp2, tmp3) ==
    wordVerdict(wordSetIn(wordPow(wordSetIn(st, tmp1, a, 1, n), tmp1, n, tmp2, tmp3),
                          tmp2, a, n, n),
                tmp1, tmp2)

(***************************************************************************)
(* The polynomial a bigIntPoly stands for, and polynomial arithmetic       *)
(* mod (N, X^R - 1) on coefficient vectors 0..R-1, to state results.       *)
(***************************************************************************)
\* The limb of the value phi at (1-based) position j: zero from len on.
PhiLimb(p, j) == IF j <= p.len THEN p.bits[j] ELSE 0

\* Coefficient i of the value phi: its k limbs from offset i*k.
PhiCoefficient(p, i) ==
    SumRange([j \in 1..p.k |-> PhiLimb(p, i * p.k + j) * IntExp(WordBase, j - 1)],
             1, p.k)

\* The coefficients 0..R-1 of the value phi.
Coefficients(p) == [i \in 0..(p.R - 1) |-> PhiCoefficient(p, i)]

\* X^k + a mod (N, X^R - 1).
RefSet(a, k, N, R) ==
    [i \in 0..(R - 1) |->
        ((IF i = 0 THEN a % N ELSE 0) + (IF i = k % R THEN 1 ELSE 0)) % N]

\* The cyclic schoolbook convolution of c and d, reduced mod N.
RefMul(c, d, N, R) ==
    [i \in 0..(R - 1) |->
        SumRange([j \in 0..(R - 1) |-> c[j] * d[(i + R - j) % R]], 0, R - 1) % N]

\* The e-fold product of c with itself, e >= 1.
RECURSIVE RefPow(_, _, _, _)
RefPow(c, e, N, R) ==
    IF e = 1 THEN c ELSE RefMul(RefPow(c, e - 1, N, R), c, N, R)

(***************************************************************************)
(* Calls of floorRoot.                                                     *)
(***************************************************************************)
(***************************************************************************)
(* The polynomial engine under test: the objects p and q and the scratches *)
(* tmp1 and tmp2, all built with the same (N, R), and the calls made on    *)
(* them.  last records the last call, with what the claims about it need   *)
(* of the state before the call.                                           *)
(***************************************************************************)
NoCall == [fn |-> "none"]

PolyIdle ==
    /\ polyN = 0
    /\ polyR = 0
    /\ heap = <<>>
    /\ last = [op |-> "none"]
    /\ ops = 0
    /\ word = <<>>

ArithIdle ==
    /\ call = NoCall
    /\ ret = 0
    /\ apc = "idle"

SearchIdle ==
    /\ drv = [pc |-> "none"]
    /\ numberCh = <<>>
    /\ resultCh = <<>>
    /\ closed = FALSE
    /\ wrk = <<>>
    /\ tested = {}
    /\ received = {}

Polys == {"p", "q"}
Objects == {"p", "q", "tmp1", "tmp2"}

NoCoefficients == <<>>

Called(op, obj, arg, a, k, pre, preArg, result) ==
    [op |-> op, obj |-> obj, arg |-> arg, a |-> a, k |-> k,
     pre |-> pre, preArg |-> preArg, result |-> result]

\* Pow was called with an exponent other than the N the polynomials were
\* built with.
ForeignPow == last.op = "Pow" /\ last.k # polyN

PolyInit ==
    /\ polyN \in 2..MaxPolyN
    /\ polyR \in 2..MaxPolyR
    /\ heap = [o \in Objects |-> newBigIntPoly(polyN, polyR)]
    /\ word = [heap |-> [o \in Objects |-> NewWordPoly(polyN, polyR)],
               overflow |-> FALSE, isWitness |-> FALSE]
    /\ last = Called("new", "p", "p", 0, 0, NoCoefficients, NoCoefficients, FALSE)
    /\ ops = 0
    /\ ArithIdle
    /\ SearchIdle

MayCall == ops < MaxOps /\ ~ForeignPow

\* The WordPoly objects are used for the N below the Word threshold only.
asWord(st) == IF useWordFunctions(polyN) THEN st ELSE word

\* o.Set(a, k, N).
SetCall(o, a, k) ==
    /\ MayCall
    /\ heap' = SetIn(heap, o, a, k, polyN)
    /\ word' = asWord(wordSetIn(word, o, Word(a), Word(k), Word(polyN)))
    /\ last' = Called("Set", o, o, a, k, Coefficients(heap[o]),
                      NoCoefficients, FALSE)
    /\ ops' = ops + 1
    /\ UNCHANGED <<polyN, polyR, arithVars, searchVars>>

\* o.mul(o2, N, tmp1); o2 may be o.
MulCall(o, o2) ==
    /\ MayCall
    /\ heap' = mul(heap, o, o2, polyN, "tmp1")
    /\ word' = asWord(wordMul(word, o, o2, Word(polyN), "tmp1"))
    /\ last' = Called("mul", o, o2, 0, 0, Coefficients(heap[o]),
                      Coefficients(heap[o2]), FALSE)
    /\ ops' = ops + 1
    /\ UNCHANGED <<polyN, polyR, arithVars, searchVars>>

\* o.Pow(E, tmp1, tmp2).
PowCall(o, E) ==
    /\ MayCall
    /\ heap' = Pow(heap, o, E, "tmp1", "tmp2")
    /\ word' = asWord(wordPow(word, o, Word(E), "tmp1", "tmp2"))
    /\ last' = Called("Pow", o, o, 0, E, Coefficients(heap[o]),
                      NoCoefficients, FALSE)
    /\ ops' = ops + 1
    /\ UNCHANGED <<polyN, polyR, arithVars, searchVars>>

\* isAKSWitness(N, a, p, tmp1, tmp2).
WitnessCall(a) ==
    /\ MayCall
    /\ \E w \in {isAKSWitness(heap, polyN, a, "p", "tmp1", "tmp2")} :
           /\ heap' = w.heap
           /\ word' = asWord(isAKSWitnessWord(word, Word(polyN), Word(a),
                                              "p", "tmp1", "tmp2"))
           /\ last' = Called("isAKSWitness", "p", "tmp1", a, polyN,
                             NoCoefficients, NoCoefficients, w.isWitness)
    /\ ops' = ops + 1
    /\ UNCHANGED <<polyN, polyR, arithVars, searchVars>>

\* fuzzBigIntPoly(o): every limb of the backing array from len on is set
\* to the largest limb.
fuzzBigIntPoly(p) ==
    [p EXCEPT !.bits = SubSeq([j \in 1..Len(p.bits) |->
                                  IF j > p.len THEN WordBase - 1 ELSE p.bits[j]],
                              1, Len(p.bits))]

\* The tests' fuzzing of the objects between two calls.
FuzzCall ==
    /\ MayCall
    /\ last.op # "fuzz"
    /\ heap' = [o \in Objects |-> fuzzBigIntPoly(heap[o])]
    /\ word' = word
    /\ last' = Called("fuzz", "p", "q", 0, 0, Coefficients(heap["p"]),
                      Coefficients(heap["q"]), FALSE)
    /\ UNCHANGED <<ops, polyN, polyR, arithVars, searchVars>>

PolyNext ==
    \/ \E o \in Polys, a \in 0..MaxA, k \in 0..MaxK : SetCall(o, a, k)
    \/ \E o \in Polys, o2 \in Polys : MulCall(o, o2)
    \/ \E o \in Polys, E \in 1..MaxPolyN : PowCall(o, E)
    \/ \E a \in 0..MaxA : WitnessCall(a)
    \/ FuzzCall

Spec == PolyInit /\ [][PolyNext]_vars

(***************************************************************************)
(* Claims about the polynomial engine.                                     *)
(***************************************************************************)
\* The cyclic convolution of c and d before the reduction mod N.
RawConvolution(c, d, R) ==
    [i \in 0..(R - 1) |->
        SumRange([j \in 0..(R - 1) |-> c[j] * d[(i + R - j) % R]], 0, R - 1)]

\* I3 for p: the limbs of the leading coefficient's slot above phi are zero.
UnusedLimbsZero(p) ==
    \A j \in (p.len + 1)..(getCoefficientCount(p) * p.k) : p.bits[j] = 0

\* Reading coefficient i as the k limbs at offset k*i gives its value.
ReadsTrue(p) ==
    \A i \in 0..(getCoefficientCount(p) - 1) :
        getCoefficient(p, i) = PhiCoefficient(p, i)

\* p after the last call, a Set, is what the same Set makes of a newly built
\* polynomial: nothing of what the backing array held before shows.
SetOverwrites(p) ==
    Eq(p, SetPoly(newBigIntPoly(polyN, polyR), last.a, last.k, polyN))

\* Garbage sits in the backing array of p above its coefficients.
HoldsGarbage(p) ==
    \E j \in (getCoefficientCount(p) * p.k + 1)..Len(p.bits) :
        p.bits[j] = WordBase - 1

\* C4: after p.mul(q, N, tmp) the coefficients of p are the cyclic
\* schoolbook convolution of the old p and the old q, reduced mod N.
C4_MulIsConvolution ==
    last.op = "mul" =>
        Coefficients(heap[last.obj]) = RefMul(last.pre, last.preArg, polyN, polyR)

\* A product of two objects that wraps around X^R and has a coefficient
\* to reduce.
C4_Witness ==
    /\ last.op = "mul"
    /\ last.obj # last.arg
    /\ \E i, j \in 0..(polyR - 1) :
          i + j >= polyR /\ last.pre[i] # 0 /\ last.preArg[j] # 0
    /\ \E i \in 0..(polyR - 1) :
          RawConvolution(last.pre, last.preArg, polyR)[i] >= polyN

\* C5: after p.Set(a, k, N) the polynomial is X^(k mod R) + (a mod N)
\* mod (N, X^R - 1), the constant (a + 1) mod N when R divides k.
C5_SetIsMonomialPlusConstant ==
    last.op = "Set" =>
        Coefficients(heap[last.obj]) = RefSet(last.a, last.k, polyN, polyR)

\* Set with R dividing k and a mod N # 0: the result is the constant 1.
C5_Witness ==
    /\ last.op = "Set"
    /\ last.k % polyR = 0
    /\ last.a % polyN # 0
    /\ Coefficients(heap[last.obj]) = [i \in 0..(polyR - 1) |-> IF i = 0 THEN 1 ELSE 0]

IsPrime(n) == n >= 2 /\ \A d \in 2..(n - 1) : n % d # 0

\* C7: for a prime N, isAKSWitness(N, a) is false: Set(a, 1, N) and Pow(N)
\* give a polynomial Eq to that of Set(a, N, N).
C7_NoWitnessOfPrime ==
    (last.op = "isAKSWitness" /\ IsPrime(polyN)) => ~last.result

\* isAKSWitness of a prime N with R dividing N and a mod N # 0.
C7_Witness ==
    /\ last.op = "isAKSWitness"
    /\ IsPrime(polyN)
    /\ polyN % polyR = 0
    /\ last.a % polyN # 0
    /\ last.result

C9_EqIsCoefficientEquality ==
    ~ForeignPow =>
        /\ \A o \in Polys :
              /\ \A i \in 0..(polyR - 1) : Coefficients(heap[o])[i] \in 0..(polyN - 1)
              /\ getCoefficientCount(heap[o]) <= polyR
              /\ heap[o].len > 0 => heap[o].bits[heap[o].len] # 0
        /\ \A o1, o2 \in Polys :
              Eq(heap[o1], heap[o2]) <=> Coefficients(heap[o1]) = Coefficients(heap[o2])
        /\ \A o1, o2, o3 \in Objects :
              /\ Eq(heap[o1], heap[o1])
              /\ Eq(heap[o1], heap[o2]) => Eq(heap[o2], heap[o1])
              /\ (Eq(heap[o1], heap[o2]) /\ Eq(heap[o2], heap[o3]))
                    => Eq(heap[o1], heap[o3])

\* p, the product of a mul that reduced a coefficient, is Eq to q, which a
\* Set made, and has two terms.
C9_Witness ==
    /\ last.op = "mul"
    /\ last.obj = "p"
    /\ \E i \in 0..(polyR - 1) :
          RawConvolution(last.pre, last.preArg, polyR)[i] >= polyN
    /\ getCoefficientCount(heap["p"]) >= 2
    /\ Coefficients(heap["p"])[0] # 0
    /\ Eq(heap["p"], heap["q"])

\* The object p is as it is in base after the squaring and after the
\* multiplication of every round of Pow's loop from bit i down.
RECURSIVE BaseKept(_, _, _, _, _, _, _)
BaseKept(h, p, N, tmp1, tmp2, i, base) ==
    \/ i < 0
    \/ /\ mul(h, tmp1, tmp1, N, tmp2)[p] = base
       /\ powBit(mul(h, tmp1, tmp1, N, tmp2), p, N, tmp1, tmp2, i)[p] = base
       /\ BaseKept(powBit(mul(h, tmp1, tmp1, N, tmp2), p, N, tmp1, tmp2, i),
                   p, N, tmp1, tmp2, i - 1, base)

\* A step that is the call o.mul(o2, N, tmp1).
MulStep == last'.op = "mul" /\ ops' = ops + 1

\* A step that is the call o.Pow(E, tmp1, tmp2).
PowStep == last'.op = "Pow" /\ ops' = ops + 1

\* C29: p.mul(q, N, tmp) changes no object but p and tmp, so that a q other
\* than p is after the call as it was before; and in p.Pow(E, tmp1, tmp2)
\* the base p is as it was after every squaring and every multiplication of
\* the loop, and is replaced only by the last swap with tmp1, which is left
\* with p's old value.
C29_MulAndPowKeepTheirArgument ==
    /\ [][MulStep => \A o \in Objects \ {last'.obj, "tmp1"} : heap'[o] = heap[o]]_vars
    /\ [][PowStep =>
              /\ BaseKept(copyPhi(heap, "tmp1", last'.obj), last'.obj, last'.k,
                          "tmp1", "tmp2", BitLen(last'.k) - 2, heap[last'.obj])
              /\ Coefficients(heap'["tmp1"]) = Coefficients(heap[last'.obj])
              /\ \A o \in Polys \ {last'.obj} : heap'[o] = heap[o]]_vars

\* After p.Pow(3, tmp1, tmp2) with N = 3: the loop has squared tmp1 and
\* multiplied it by p, p has a new value and tmp1 holds p's old one.
C29_Witness ==
    /\ last.op = "Pow"
    /\ last.k = 3
    /\ polyN = 3
    /\ Coefficients(heap[last.obj]) # last.pre
    /\ Coefficients(heap["tmp1"]) = last.pre
    /\ \E i \in DOMAIN last.pre : last.pre[i] > 1

\* C21: for n below the Word threshold the WordPoly objects hold, after
\* every Set, mul, Pow(N) and isAKSWitnessWord, the coefficients the
\* bigIntPoly objects hold after the same calls; no uint64 or Word in mul has
\* lost bits; and isAKSWitnessWord gives the verdict of isAKSWitness.
C21_WordPathAgrees ==
    (useWordFunctions(polyN) /\ ~ForeignPow) =>
        /\ \A o \in Polys : word.heap[o] = Coefficients(heap[o])
        /\ ~word.overflow
        /\ last.op = "isAKSWitness" => word.isWitness = last.result

\* isAKSWitnessWord(3, 2, ...) with R = 2 has multiplied the coefficient 2
\* by itself, a product that does not fit a Word, and found (X + 2)^3 equal
\* to X^3 + 2 as isAKSWitness did.
C21_Witness ==
    /\ last.op = "isAKSWitness"
    /\ polyN = 3
    /\ polyR = 2
    /\ last.a = 2
    /\ wordProduct(2, 2) # Word(2 * 2)
    /\ ~word.isWitness
    /\ ~last.result

FloorRootInit ==
    /\ call \in [fn : {"floorRoot"}, x : -1..MaxRadicand, k : 0..MaxIndex]
    /\ ret = 0
    /\ apc = "call"
    /\ PolyIdle
    /\ SearchIdle

\* floorRoot panics on a negative radicand or a non-positive index.
FloorRootPanic ==
    /\ apc = "call"
    /\ call.fn = "floorRoot"
    /\ floorRootPanics(call.x, call.k)
    /\ apc' = "panic"
    /\ UNCHANGED <<call, ret, polyVars, searchVars>>

\* floorRoot returns.
FloorRootReturn ==
    /\ apc = "call"
    /\ call.fn = "floorRoot"
    /\ ~floorRootPanics(call.x, call.k)
    /\ ret' = floorRoot(call.x, call.k)
    /\ apc' = "done"
    /\ UNCHANGED <<call, polyVars, searchVars>>

FloorRootNext == FloorRootPanic \/ FloorRootReturn

SpecFloorRoot == FloorRootInit /\ [][FloorRootNext]_vars

FloorRootReturned == apc = "done" /\ call.fn = "floorRoot"

\* min(y^k, cap + 1): y^k as far as a comparison with cap needs it.
RECURSIVE CappedExp(_, _, _)
CappedExp(y, k, cap) ==
    IF k = 0 THEN 1 ELSE min(cap + 1, y * CappedExp(y, k - 1, cap))

\* y^k <= x < (y+1)^k.
IsFloorRoot(y, x, k) == CappedExp(y, k, x) <= x /\ x < CappedExp(y + 1, k, x)

\* C10: floorRoot(x, k) is the unique y with y^k <= x < (y+1)^k, for every
\* x >= 0 and k >= 1.
C10_FloorRootIsRoot ==
    FloorRootReturned =>
        /\ ret \in 0..call.x
        /\ \A y \in 0..call.x : IsFloorRoot(y, call.x, call.k) <=> y = ret

\* The particular cases C10 lists: an exact power, zero, index one, and the
\* three radicands between x^k and (x+1)^k.
C10_Cases(x, k) ==
    {IntExp(x, k)} \cup
    (IF x >= 1 /\ k >= 2
     THEN {IntExp(x, k) + 1, IntExp(x + 1, k) - 1,
           (IntExp(x, k) + IntExp(x + 1, k)) \div 2}
     ELSE {})

\* A call that returned x for a radicand strictly between x^k and (x+1)^k,
\* with k >= 2, after more than one Newton step.
C10_Witness ==
    /\ FloorRootReturned
    /\ call.k >= 2
    /\ ret >= 2
    /\ call.x = IntExp(ret + 1, call.k) - 1
    /\ call.x \in C10_Cases(ret, call.k)

\* A worker calls isAKSWitness again and again on the same tmp1, tmp2, tmp3:
\* the verdict is the one given on new polynomials, whatever they held.
WitnessIgnoresScratch ==
    last.op = "isAKSWitness" =>
        last.result = isAKSWitness([o \in Objects |-> newBigIntPoly(polyN, polyR)],
                                   polyN, last.a, "p", "tmp1", "tmp2").isWitness

(***************************************************************************)
(* GetAKSWitness and its testAKSWitnesses goroutines, called as the README *)
(* shows (entry "lib") or by main (entry "main").  A step of a goroutine   *)
(* is one channel operation with the code up to the next one.              *)
(***************************************************************************)
\* tmp1, tmp2, tmp3 := newBigIntPoly(*n, *r), three times.
newScratch(n, r) == [o \in {"tmp1", "tmp2", "tmp3"} |-> newBigIntPoly(n, r)]

\* isAKSWitness(n, a, tmp1, tmp2, tmp3) with r = CalculateAKSModulus(n), for
\* n in 2..MaxSearchN and a below M = CalculateAKSUpperBound(n, r).
WitnessTable ==
    [n \in 2..MaxSearchN |->
        [a \in 0..(CalculateAKSUpperBound(n, CalculateAKSModulus(n)) - 1) |->
            isAKSWitness(newScratch(n, CalculateAKSModulus(n)), n, a,
                         "tmp1", "tmp2", "tmp3").isWitness]]

\* The locals of main and GetAKSWitness before the call.
newDriver(entry, n, start, end, workers) ==
    [entry |-> entry, n |-> n, r |-> 0, M |-> 0, start |-> start, end |-> end,
     workers |-> workers, i |-> 0, j |-> 0, pc |-> "call", ret |-> Nil,
     report |-> [kind |-> "none", value |-> Nil],
     flags |-> [start |-> start, end |-> end]]

\* The ends GetAKSWitness is called with for n: up to MaxEnd, or M.
EndsUpTo(M) == {e \in 0..M : e <= MaxEnd \/ e = M}

Ends(n) == EndsUpTo(CalculateAKSUpperBound(n, CalculateAKSModulus(n)))

\* The calls on n up to maxN (README) and up to maxMainN (main).
SearchInitUpTo(maxN, maxMainN) ==
    /\ \/ \E n \in 2..maxN, workers \in 1..MaxWorkers :
              \E end \in Ends(n), start \in 0..MaxStart :
                  drv = newDriver("lib", n, start, end, workers)
       \/ \E n \in 0..maxMainN : drv = newDriver("main", n, 0, 0, 1)
    /\ numberCh = <<>>
    /\ resultCh = <<>>
    /\ closed = FALSE
    /\ wrk = <<>>
    /\ tested = {}
    /\ received = {}
    /\ ArithIdle
    /\ PolyIdle

SearchInit == SearchInitUpTo(MaxSearchN, MaxMainN)

\* The loop that starts the goroutines ended one short.
spawnOneLess(workers) == [w \in 1..(workers - 1) |-> [pc |-> "recv", a |-> Nil, isWitness |-> FALSE]]

\* for i := 0; i < maxOutstanding; i++ { go testAKSWitnesses(...) }.
spawnWorkers(workers) == [w \in 1..workers |-> [pc |-> "recv", a |-> Nil, isWitness |-> FALSE]]

\* GetAKSWitness up to its first loop: i.Set(start); j.Set(start).
enterGetAKSWitness(d, r, M, start, end) ==
    [d EXCEPT !.r = r, !.M = M, !.start = start, !.end = end,
              !.i = start, !.j = start, !.pc = "loop"]

\* main leaves with a report.
exitMain(d, r, M, kind, value) ==
    [d EXCEPT !.r = r, !.M = M, !.pc = "exit", !.report = [kind |-> kind, value |-> value]]

\* main from the factor test on, with r, M and the clamped start and end.
mainWithBounds(d, r, M, start, end, factor) ==
    IF factor # Nil THEN exitMain(d, r, M, "factor", factor)
    ELSE IF M * M > d.n THEN exitMain(d, r, M, "prime", Nil)
    ELSE enterGetAKSWitness(d, r, M, start, end)

mainWithModulus(d, r, M) ==
    mainWithBounds(d, r, M, IF d.start < 1 THEN 1 ELSE d.start,
                   IF d.end <= 0 THEN M ELSE d.end, GetFirstFactorBelow(d.n, M))

\* main: n < 2 is refused; CalculateAKSModulus may panic.
mainBody(d, r) ==
    IF d.n < 2 THEN exitMain(d, 0, 0, "usage", Nil)
    ELSE IF r = Panic THEN exitMain(d, 0, 0, "panic", Nil)
    ELSE mainWithModulus(d, r, CalculateAKSUpperBound(d.n, r))

\* main up to its exit or to the first loop of GetAKSWitness.
Main ==
    /\ drv.pc = "call"
    /\ drv.entry = "main"
    /\ \E d \in {mainBody(drv, IF drv.n < 2 THEN 0 ELSE CalculateAKSModulus(drv.n))} :
          /\ drv' = d
          /\ wrk' = IF d.pc = "loop" THEN spawnWorkers(d.workers) ELSE wrk
    /\ UNCHANGED <<numberCh, resultCh, closed, tested, received, arithVars, polyVars>>

\* The README's call: r and M are computed, then GetAKSWitness runs up to
\* its first loop.
CallGetAKSWitness ==
    /\ drv.pc = "call"
    /\ drv.entry = "lib"
    /\ drv' = enterGetAKSWitness(drv, CalculateAKSModulus(drv.n),
                                 CalculateAKSUpperBound(drv.n, CalculateAKSModulus(drv.n)),
                                 drv.start, drv.end)
    /\ wrk' = spawnWorkers(drv.workers)
    /\ UNCHANGED <<numberCh, resultCh, closed, tested, received, arithVars, polyVars>>

\* main's report when it prints "n is prime" after every nil.
reportOfAnyRange(d, a) ==
    IF d.entry # "main" THEN d.report
    ELSE IF a # Nil THEN [kind |-> "witness", value |-> a]
    ELSE [kind |-> "prime", value |-> Nil]

\* What main prints after GetAKSWitness returned a.
reportOf(d, a) ==
    IF d.entry # "main" THEN d.report
    ELSE IF a # Nil THEN [kind |-> "witness", value |-> a]
    ELSE IF d.start > 1 \/ d.end < d.M THEN [kind |-> "no witness in range", value |-> Nil]
    ELSE [kind |-> "prime", value |-> Nil]

\* return a, and main's report.
returned(d, a) == [d EXCEPT !.pc = "done", !.ret = a, !.report = reportOf(d, a)]

\* j.Add(&j, 1) without the test of result.isWitness.
afterResultCounted(d, result) == [d EXCEPT !.j = d.j + 1]

\* j.Add(&j, 1); if result.isWitness { return result.a }.
afterResult(d, result) ==
    IF result.isWitness THEN returned([d EXCEPT !.j = d.j + 1], result.a)
    ELSE [d EXCEPT !.j = d.j + 1]

\* A receive from resultCh by the driver; a return closes numberCh (defer).
DriverReceive ==
    /\ resultCh # <<>>
    /\ drv' = afterResult(drv, Head(resultCh))
    /\ resultCh' = Tail(resultCh)
    /\ received' = received \cup {Head(resultCh).a}
    /\ closed' = Head(resultCh).isWitness
    /\ UNCHANGED <<numberCh, wrk, tested, arithVars, polyVars>>

\* select { case result := <-resultCh: ... } in the first loop.
DriverSelectReceive ==
    /\ drv.pc = "loop"
    /\ drv.i < drv.end
    /\ DriverReceive

\* A send made without the select: whatever resultCh holds.
resultNotAwaited(ch) == TRUE

\* The select takes its default case when no result is ready.
noResultReady(ch) == ch = <<>>

\* select { default: } is taken when resultCh has nothing: a.Set(&i).
DriverSelectDefault ==
    /\ drv.pc = "loop"
    /\ drv.i < drv.end
    /\ noResultReady(resultCh)
    /\ drv' = [drv EXCEPT !.pc = "send"]
    /\ UNCHANGED <<numberCh, resultCh, closed, wrk, tested, received, arithVars, polyVars>>

\* numberCh <- &i: every number on the channel is the counter itself,
\* whose value is i after i.Add(&i, 1).
sentShared(ch, i) == [x \in DOMAIN ch |-> i]

\* The numbers on numberCh after i.Add(&i, 1) has made the counter i: each
\* is a big.Int of its own (var a big.Int; a.Set(&i)), which the Add leaves
\* as it is.
sentCopies(ch, i) == ch

\* numberCh <- &a; i.Add(&i, 1): blocks while numberCh is full.
DriverSend ==
    /\ drv.pc = "send"
    /\ Len(numberCh) < drv.workers
    /\ numberCh' = sentCopies(Append(numberCh, drv.i), drv.i + 1)
    /\ drv' = [drv EXCEPT !.i = drv.i + 1, !.pc = "loop"]
    /\ UNCHANGED <<resultCh, closed, wrk, tested, received, arithVars, polyVars>>

\* The second loop: result := <-resultCh while j < end.
DriverDrainReceive ==
    /\ drv.pc = "loop"
    /\ drv.i >= drv.end
    /\ drv.j < drv.end
    /\ DriverReceive

\* The second loop left as soon as every number is sent.
drainedWhenSent(d) == d.i >= d.end

\* The second loop is over.
drained(d) == d.j >= d.end

\* return nil.
DriverReturnNil ==
    /\ drv.pc = "loop"
    /\ drv.i >= drv.end
    /\ drained(drv)
    /\ drv' = returned(drv, Nil)
    /\ closed' = TRUE
    /\ UNCHANGED <<numberCh, resultCh, wrk, tested, received, arithVars, polyVars>>

\* The verdicts isAKSWitness(n, a) may give: the one of WitnessTable, and
\* for the n and a beyond it, where it is not computed, either one.
Verdicts(n, a) ==
    IF n <= MaxSearchN /\ a \in DOMAIN WitnessTable[n] THEN {WitnessTable[n][a]}
    ELSE BOOLEAN

\* for a := range numberCh: a receive, and the test of a.
WorkerReceive(w) ==
    /\ wrk[w].pc = "recv"
    /\ numberCh # <<>>
    /\ \E isWitness \in Verdicts(drv.n, Head(numberCh)) :
          wrk' = [wrk EXCEPT ![w] = [pc |-> "send", a |-> Head(numberCh),
                                    isWitness |-> isWitness]]
    /\ numberCh' = Tail(numberCh)
    /\ tested' = tested \cup {Head(numberCh)}
    /\ UNCHANGED <<drv, resultCh, closed, received, arithVars, polyVars>>

\* resultCh <- witnessResult{a, isWitness}: blocks while resultCh is full.
WorkerSend(w) ==
    /\ wrk[w].pc = "send"
    /\ Len(resultCh) < drv.workers
    /\ resultCh' = Append(resultCh, [a |-> wrk[w].a, isWitness |-> wrk[w].isWitness])
    /\ wrk' = [wrk EXCEPT ![w].pc = "recv"]
    /\ UNCHANGED <<drv, numberCh, closed, tested, received, arithVars, polyVars>>

\* range over the closed and empty numberCh ends: the goroutine returns.
WorkerExit(w) ==
    /\ wrk[w].pc = "recv"
    /\ numberCh = <<>>
    /\ closed
    /\ wrk' = [wrk EXCEPT ![w].pc = "exit"]
    /\ UNCHANGED <<drv, numberCh, resultCh, closed, tested, received, arithVars, polyVars>>

SearchNext ==
    \/ Main
    \/ CallGetAKSWitness
    \/ DriverSelectReceive
    \/ DriverSelectDefault
    \/ DriverSend
    \/ DriverDrainReceive
    \/ DriverReturnNil
    \/ \E w \in DOMAIN wrk : WorkerReceive(w)
    \/ \E w \in DOMAIN wrk : WorkerSend(w)
    \/ \E w \in DOMAIN wrk : WorkerExit(w)

SpecSearch == SearchInit /\ [][SearchNext]_vars

(***************************************************************************)
(* Claims about main and GetAKSWitness.                                    *)
(***************************************************************************)
\* The call was made with the range [start, M).
RangeFrom(start) == drv.start = start /\ drv.end = drv.M

\* v is a factor of n other than 1 and n.
ProperFactor(v, n) == v > 1 /\ v < n /\ n % v = 0

\* What main reports for a composite n: a proper factor or an AKS witness.
ReportsComposite ==
    \/ drv.report.kind = "factor" /\ ProperFactor(drv.report.value, drv.n)
    \/ /\ drv.report.kind = "witness"
       /\ drv.report.value \in 1..(drv.M - 1)
       /\ WitnessTable[drv.n][drv.report.value]

\* C1: main, run on n >= 2 with the full range, reports n prime exactly when
\* n is prime, and reports a proper factor or an AKS witness of a composite
\* n; GetAKSWitness(n, r, 1, M), the call main makes when neither a factor
\* nor the shortcut M^2 > n decides, returns nil exactly when n is prime.
C1_PrimeReportedIffPrime ==
    /\ (drv.entry = "main" /\ drv.pc \in {"exit", "done"} /\ drv.n >= 2) =>
          /\ drv.report.kind = "prime" <=> IsPrime(drv.n)
          /\ ~IsPrime(drv.n) => ReportsComposite
    /\ (drv.entry = "lib" /\ drv.pc = "done" /\ RangeFrom(1)) =>
          (drv.ret = Nil <=> IsPrime(drv.n))

\* main reported a prime by the shortcut, and a composite by its factor.
C1_Witness ==
    /\ drv.entry = "main"
    /\ drv.pc = "exit"
    /\ \/ drv.report.kind = "prime" /\ IsPrime(drv.n) /\ drv.M * drv.M > drv.n
       \/ drv.report.kind = "factor" /\ ~IsPrime(drv.n) /\ drv.n >= 2

\* C2: GetAKSWitness(n, r, 0, M, jobs), r and M computed as the README
\* shows and no factor looked for first, returns a number when n is
\* composite and nil when n is prime, for every jobs >= 1.
C2_ReadmeCallDecidesPrimality ==
    (drv.entry = "lib" /\ drv.pc = "done" /\ RangeFrom(0)) =>
        (drv.ret # Nil <=> ~IsPrime(drv.n))

\* The README's call returned nil for a prime after the workers tested
\* every a of [0, M), the goroutines being as many as the model has.
C2_Witness ==
    /\ drv.entry = "lib"
    /\ drv.pc = "done"
    /\ RangeFrom(0)
    /\ drv.workers = MaxWorkers
    /\ IsPrime(drv.n)
    /\ drv.ret = Nil
    /\ tested = 0..(drv.M - 1)

\* C3: a number a returned by GetAKSWitness(n, r, start, end, workers) is
\* in [start, end) and isAKSWitness(n, a) holds; when nil is returned every
\* a of [start, end) was tested by a worker, its result was received by the
\* driver, and none is a witness; in every interleaving.
C3_ReturnedWitnessOrAllTested ==
    (drv.entry = "lib" /\ drv.pc = "done") =>
        IF drv.ret # Nil
        THEN /\ drv.start <= drv.ret
             /\ drv.ret < drv.end
             /\ WitnessTable[drv.n][drv.ret]
        ELSE \A a \in drv.start..(drv.end - 1) :
                /\ a \in tested
                /\ a \in received
                /\ ~WitnessTable[drv.n][a]

\* A witness was returned while another number was with a worker or in a
\* channel: the results did not come back one by one.
C3_Witness ==
    /\ drv.entry = "lib"
    /\ drv.pc = "done"
    /\ drv.ret # Nil
    /\ drv.i > drv.j
    /\ drv.workers = MaxWorkers

(***************************************************************************)
(* The number-theoretic functions, each called once on arguments drawn     *)
(* from the bounds.  ret is what the function returns; for trialDivide it  *)
(* is the sequence of the calls of factorFn.                               *)
(***************************************************************************)
\* trialDivide(n, factorFn, upperBound) as its callers and tests call it.
TrialDivideCalls ==
    [fn : {"trialDivide"}, n : -1..MaxFactorN, stopAt : Never..MaxStopAt,
     upperBound : {Nil}]
    \cup [fn : {"trialDivide"}, n : 1..MaxBoundedN, stopAt : Never..MaxStopAt,
          upperBound : 0..MaxUpperBound]

\* GetFirstFactorBelow(n, M).
FirstFactorCalls == [fn : {"GetFirstFactorBelow"}, n : 2..MaxFirstN, M : 0..MaxM]

\* CalculateAKSModulus(n).
ModulusCalls == [fn : {"CalculateAKSModulus"}, n : 2..MaxModulusN]

\* CalculateAKSUpperBound(n, r).
UpperBoundCalls == [fn : {"CalculateAKSUpperBound"}, n : 2..MaxBoundN, r : 1..MaxBoundR]

\* calculateMultiplicativeOrder(a, n) on coprime a and n, and the test's call.
OrderCalls ==
    {c \in [fn : {"calculateMultiplicativeOrder"}, a : 0..MaxOrderA, n : 1..MaxOrderN] :
        GCD(c.a, c.n) = 1}
    \cup {[fn |-> "calculateMultiplicativeOrder", a |-> 3, n |-> 25600]}

\* The primes up to MaxOrderP.
OrderPrimes == {p \in 2..MaxOrderP : \A d \in 2..(p - 1) : p % d # 0}

\* calculateMultiplicativeOrderPrimePower(a, p, k) on a prime p that does not
\* divide a, and the tests' calls.
OrderPrimePowerCalls ==
    {c \in [fn : {"calculateMultiplicativeOrderPrimePower"}, a : 1..MaxOrderA,
            p : OrderPrimes, k : 1..MaxOrderK] : c.a % c.p # 0}
    \cup {[fn |-> "calculateMultiplicativeOrderPrimePower", a |-> 3, p |-> 2, k |-> 10]}

NumberInit ==
    /\ call \in TrialDivideCalls \cup FirstFactorCalls \cup ModulusCalls
                \cup UpperBoundCalls \cup OrderCalls \cup OrderPrimePowerCalls
    /\ ret = 0
    /\ apc = "call"
    /\ PolyIdle
    /\ SearchIdle

\* trialDivide panics on a negative n.
TrialDividePanic ==
    /\ apc = "call"
    /\ call.fn = "trialDivide"
    /\ trialDividePanics(call.n)
    /\ apc' = "panic"
    /\ UNCHANGED <<call, ret, polyVars, searchVars>>

\* trialDivide returns, having called factorFn on the pairs of ret.
TrialDivideReturn ==
    /\ apc = "call"
    /\ call.fn = "trialDivide"
    /\ ~trialDividePanics(call.n)
    /\ ret' = trialDivide(call.n, call.stopAt, call.upperBound)
    /\ apc' = "done"
    /\ UNCHANGED <<call, polyVars, searchVars>>

\* GetFirstFactorBelow returns factor; calls are the calls of its callback.
GetFirstFactorBelowReturn ==
    /\ apc = "call"
    /\ call.fn = "GetFirstFactorBelow"
    /\ ret' = [factor |-> GetFirstFactorBelow(call.n, call.M),
               calls |-> firstFactorCalls(call.n, call.M)]
    /\ apc' = "done"
    /\ UNCHANGED <<call, polyVars, searchVars>>

\* CalculateAKSModulus returns r, or panics past the upper bound.
CalculateAKSModulusReturn ==
    /\ apc = "call"
    /\ call.fn = "CalculateAKSModulus"
    /\ \E r \in {CalculateAKSModulus(call.n)} :
          /\ ret' = r
          /\ apc' = IF r = Panic THEN "panic" ELSE "done"
    /\ UNCHANGED <<call, polyVars, searchVars>>

\* CalculateAKSUpperBound returns M; phi is its calculateEulerPhi(r).
CalculateAKSUpperBoundReturn ==
    /\ apc = "call"
    /\ call.fn = "CalculateAKSUpperBound"
    /\ ret' = [M |-> CalculateAKSUpperBound(call.n, call.r),
               phi |-> calculateEulerPhi(call.r)]
    /\ apc' = "done"
    /\ UNCHANGED <<call, polyVars, searchVars>>

CalculateMultiplicativeOrderReturn ==
    /\ apc = "call"
    /\ call.fn = "calculateMultiplicativeOrder"
    /\ ret' = calculateMultiplicativeOrder(call.a, call.n)
    /\ apc' = "done"
    /\ UNCHANGED <<call, polyVars, searchVars>>

CalculateMultiplicativeOrderPrimePowerReturn ==
    /\ apc = "call"
    /\ call.fn = "calculateMultiplicativeOrderPrimePower"
    /\ ret' = calculateMultiplicativeOrderPrimePower(call.a, call.p, call.k)
    /\ apc' = "done"
    /\ UNCHANGED <<call, polyVars, searchVars>>

NumberNext ==
    \/ TrialDividePanic
    \/ TrialDivideReturn
    \/ GetFirstFactorBelowReturn
    \/ CalculateAKSModulusReturn
    \/ CalculateAKSUpperBoundReturn
    \/ CalculateMultiplicativeOrderReturn
    \/ CalculateMultiplicativeOrderPrimePowerReturn

SpecNumber == NumberInit /\ [][NumberNext]_vars

\* trialDivide(n, f, nil) returned.
TrialDivided == apc = "done" /\ call.fn = "trialDivide" /\ call.upperBound = Nil

\* The primes that divide n.
PrimeFactors(n) == {p \in 2..n : n % p = 0 /\ IsPrime(p)}

\* p^m divides n and p^(m+1) does not.
IsMultiplicity(m, p, n) ==
    /\ m >= 1
    /\ n % IntExp(p, m) = 0
    /\ (n \div IntExp(p, m)) % p # 0

\* The product of p^m over the pairs fs[i..].
RECURSIVE FactorProduct(_, _)
FactorProduct(fs, i) ==
    IF i > Len(fs) THEN 1 ELSE IntExp(fs[i][1], fs[i][2]) * FactorProduct(fs, i + 1)

\* fs is the factorization of n: every prime factor once, in ascending
\* order, with its multiplicity.
IsFactorization(fs, n) ==
    /\ {fs[i][1] : i \in DOMAIN fs} = PrimeFactors(n)
    /\ \A i \in DOMAIN fs : IsMultiplicity(fs[i][2], fs[i][1], n)
    /\ \A i \in DOMAIN fs : i > 1 => fs[i - 1][1] < fs[i][1]
    /\ FactorProduct(fs, 1) = n

\* C11: trialDivide(n, f, nil) with f always true calls f once per prime
\* factor p of n, in ascending order of p, with the multiplicity of p in n,
\* and the product of the p^m is n; f is not called for n = 0 and n = 1.
C11_TrialDivideFactorizes ==
    (TrialDivided /\ call.stopAt = Never) =>
        /\ call.n >= 1 => IsFactorization(ret, call.n)
        /\ call.n \in {0, 1} => ret = <<>>

\* 1763 = 41 * 43: 41 is found by the wheel after its index wrapped, 43 is
\* the remaining cofactor.
C11_Witness ==
    /\ TrialDivided
    /\ call.stopAt = Never
    /\ ret = <<(<<41, 1>>), (<<43, 1>>)>>

\* p is the i-th prime factor of n in ascending order.
IsNthPrimeFactor(p, i, n) ==
    /\ p \in PrimeFactors(n)
    /\ Cardinality({q \in PrimeFactors(n) : q < p}) = i - 1

\* C12: once factorFn has returned false it is not called again, neither on
\* a larger divisor nor on the remaining cofactor, and the calls made up to
\* then are the first factors of the ascending factorization of n.
C12_StopsAtFalse ==
    (TrialDivided /\ call.stopAt # Never /\ call.n >= 1) =>
        /\ Len(ret) = min(call.stopAt, Cardinality(PrimeFactors(call.n)))
        /\ \A i \in DOMAIN ret :
              /\ IsNthPrimeFactor(ret[i][1], i, call.n)
              /\ IsMultiplicity(ret[i][2], ret[i][1], call.n)

\* n = 100 with a callback that returns false at its first call: (2, 2) is
\* the only call, 5 and the cofactor 25 are not delivered.
C12_Witness ==
    /\ TrialDivided
    /\ call.n = 100
    /\ call.stopAt = 1
    /\ ret = <<(<<2, 2>>)>>

\* The least prime factor of n >= 2.
SmallestPrimeFactor(n) ==
    CHOOSE p \in PrimeFactors(n) : \A q \in PrimeFactors(n) : p <= q

\* C13: GetFirstFactorBelow(n, M) returns the smallest prime factor p of n
\* when p < M and p < n, and nil otherwise; it never returns n, so it
\* returns nil for a prime n; its callback is called at most once.
C13_FirstFactorBelow ==
    (apc = "done" /\ call.fn = "GetFirstFactorBelow") =>
        /\ ret.factor = IF /\ SmallestPrimeFactor(call.n) < call.M
                           /\ SmallestPrimeFactor(call.n) < call.n
                        THEN SmallestPrimeFactor(call.n) ELSE Nil
        /\ ret.factor # call.n
        /\ IsPrime(call.n) => ret.factor = Nil
        /\ Len(ret.calls) <= 1

\* A prime n below M that the wheel divides by itself: the callback is
\* called on n and nil is returned.
C13_Witness ==
    /\ apc = "done"
    /\ call.fn = "GetFirstFactorBelow"
    /\ IsPrime(call.n)
    /\ call.n >= 11
    /\ call.n < call.M
    /\ ret.calls = <<(<<call.n, 1>>)>>
    /\ ret.factor = Nil

\* ceil(lg(n)): the least k with 2^k >= n.
RECURSIVE CeilLgFrom(_, _)
CeilLgFrom(n, k) == IF IntExp(2, k) >= n THEN k ELSE CeilLgFrom(n, k + 1)

CeilLg(n) == CeilLgFrom(n, 0)

\* The exponents e of 1..r with a^e = 1 (mod r).
PowersToOne(a, r) == {e \in 1..r : ModExp(a, e, r) = 1 % r}

\* The least element of a set of numbers.
Least(S) == CHOOSE e \in S : \A f \in S : e <= f

\* o_r(a) for a coprime to r: the least e > 0 with a^e = 1 (mod r).
Order(a, r) == Least(PowersToOne(a, r))

\* r is coprime to n and o_r(n) > ceil(lg(n))^2.
IsAKSModulus(r, n) == GCD(n, r) = 1 /\ Order(n, r) > CeilLg(n) * CeilLg(n)

\* C14: CalculateAKSModulus(n) is the least r with o_r(n) > ceil(lg(n))^2,
\* it is coprime to n, and no such r lies below ceil(lg(n))^2 + 2.
C14_ModulusIsLeast ==
    (apc = "done" /\ call.fn = "CalculateAKSModulus") =>
        /\ IsAKSModulus(ret, call.n)
        /\ \A r \in 1..(ret - 1) : ~IsAKSModulus(r, call.n)
        /\ ret >= CeilLg(call.n) * CeilLg(call.n) + 2

\* n is a power of two, for which n.BitLen() is ceil(lg(n)) + 1, and a
\* smaller r than the one returned has o_r(n) > ceil(lg(n))^2.
C14_Witness ==
    /\ apc = "done"
    /\ call.fn = "CalculateAKSModulus"
    /\ BitLen(call.n) = CeilLg(call.n) + 1
    /\ \E r \in 1..(ret - 1) : IsAKSModulus(r, call.n)

\* Where n.BitLen() is ceil(lg(n)), that is for n not a power of two,
\* CalculateAKSModulus(n) is the least such r.
ModulusIsLeastOffPowersOfTwo ==
    (call.fn = "CalculateAKSModulus" /\ BitLen(call.n) = CeilLg(call.n)) =>
        C14_ModulusIsLeast

TrialDivideReturned == apc = "done" /\ call.fn = "trialDivide" /\ call.n >= 1

\* C25: every pair (p, e) that trialDivide hands to factorFn has p prime and
\* e >= 1, the last pair (t, 1) included, for n >= 1 and for the default as
\* well as for an explicit upper bound.
C25_DeliveredArePrimePowers ==
    TrialDivideReturned =>
        \A i \in 1..Len(ret) : IsPrime(ret[i][1]) /\ ret[i][2] >= 1

\* An explicit upper bound below sqrt(n): no prime up to it divides n and
\* the composite n itself is handed to factorFn as (n, 1).
C25_Witness ==
    /\ TrialDivideReturned
    /\ call.upperBound # Nil
    /\ call.n = 25
    /\ call.upperBound = 4
    /\ ret = <<(<<25, 1>>)>>

\* With the default bound floor(sqrt(n)), or an explicit bound that is at
\* least that, every pair handed to factorFn is a prime with e >= 1; below
\* it every pair but the last cofactor is, and no prime up to the bound
\* divides that cofactor.
DeliveredPrimeUpToBound ==
    TrialDivideReturned =>
        \A i \in 1..Len(ret) :
            /\ ret[i][2] >= 1
            /\ \/ IsPrime(ret[i][1])
               \/ /\ i = Len(ret)
                  /\ call.upperBound # Nil
                  /\ call.upperBound < floorRoot(call.n, 2)
                  /\ ret[i][2] = 1
                  /\ \A d \in 2..call.upperBound : IsPrime(d) => ret[i][1] % d # 0

\* Phi(r): the number of integers of [1, r] coprime to r.
Totient(r) == Cardinality({i \in 1..r : GCD(i, r) = 1})

\* CalculateAKSUpperBound(n, r) returned.
UpperBoundReturned == apc = "done" /\ call.fn = "CalculateAKSUpperBound"

\* calculateEulerPhi(r) is Phi(r).
EulerPhiIsTotient == UpperBoundReturned => ret.phi = Totient(call.r)

\* M = floor(sqrt(Phi(r))) * lgN + 1.
IsUpperBound(M, r, lgN) ==
    \E y \in 0..r : IsFloorRoot(y, Totient(r), 2) /\ M = y * lgN + 1

\* C15: CalculateAKSUpperBound(n, r) is floor(sqrt(Phi(r))) * ceil(lg(n)) + 1,
\* and calculateEulerPhi(r) is the number of integers of [1, r] coprime to r.
C15_UpperBoundFormula ==
    UpperBoundReturned =>
        /\ ret.phi = Totient(call.r)
        /\ IsUpperBound(ret.M, call.r, CeilLg(call.n))

\* n is a power of two and M is floor(sqrt(Phi(r))) * (ceil(lg(n)) + 1) + 1.
C15_Witness ==
    /\ UpperBoundReturned
    /\ BitLen(call.n) = CeilLg(call.n) + 1
    /\ Totient(call.r) >= 4
    /\ IsUpperBound(ret.M, call.r, CeilLg(call.n) + 1)
    /\ ~IsUpperBound(ret.M, call.r, CeilLg(call.n))

\* With n.BitLen() in the place of ceil(lg(n)) the formula holds for every
\* n, and so C15's does for n not a power of two.
UpperBoundWithBitLen ==
    UpperBoundReturned => IsUpperBound(ret.M, call.r, BitLen(call.n))

\* C16: calculateMultiplicativeOrder(a, n), a coprime to n, is the least
\* e > 0 with a^e = 1 (mod n), and calculateMultiplicativeOrderPrimePower(a,
\* p, k), p a prime that does not divide a, is that of a modulo p^k.
C16_OrderIsLeast ==
    /\ (apc = "done" /\ call.fn = "calculateMultiplicativeOrder") =>
          ret = Order(call.a, call.n)
    /\ (apc = "done" /\ call.fn = "calculateMultiplicativeOrderPrimePower") =>
          ret = Order(call.a, IntExp(call.p, call.k))

\* The test's order of 3 modulo 25600 = 2^10 * 5^2: the lcm of 256 and 20.
C16_Witness ==
    /\ apc = "done"
    /\ call = [fn |-> "calculateMultiplicativeOrder", a |-> 3, n |-> 25600]
    /\ ret = 1280

(***************************************************************************)
(* GetAKSWitness under fair scheduling: a goroutine that can take a step   *)
(* eventually takes one.                                                   *)
(***************************************************************************)
\* A step of GetAKSWitness in its loops.
DriverStep ==
    \/ DriverSelectReceive
    \/ DriverSelectDefault
    \/ DriverSend
    \/ DriverDrainReceive
    \/ DriverReturnNil

\* A step of the w-th testAKSWitnesses goroutine.
WorkerStep(w) ==
    /\ w \in DOMAIN wrk
    /\ WorkerReceive(w) \/ WorkerSend(w) \/ WorkerExit(w)

FairSearchInit == SearchInitUpTo(MaxFairN, MaxFairN)

SpecSearchFair ==
    /\ FairSearchInit
    /\ [][SearchNext]_vars
    /\ WF_vars(DriverStep)
    /\ \A w \in 1..MaxWorkers : WF_vars(WorkerStep(w))

\* GetAKSWitness has returned.
Returned == drv.pc = "done"

\* Every testAKSWitnesses goroutine has left its range loop.
WorkersExited == \A w \in DOMAIN wrk : wrk[w].pc = "exit"

\* C17: when GetAKSWitness returns numberCh is closed, and every worker
\* then comes to the end of its range loop and exits: none stays blocked
\* on resultCh.
C17_WorkersExitAfterReturn ==
    /\ [](Returned => closed)
    /\ Returned ~> WorkersExited

\* GetAKSWitness has returned a witness and a worker is at its send on a
\* full resultCh, from which nothing is received any more.
C17_Witness ==
    /\ Returned
    /\ drv.ret # Nil
    /\ \E w \in DOMAIN wrk : wrk[w].pc = "send" /\ Len(resultCh) = drv.workers

\* After a return of nil every worker exits.
WorkersExitAfterNil == (Returned /\ drv.ret = Nil) ~> WorkersExited

\* GetAKSWitness is in one of its two loops.
Searching == drv.pc \in {"loop", "send"}

\* C22: under fair scheduling of the driver and the workers GetAKSWitness
\* returns, whatever start, end and the number of workers (at least one);
\* a return of nil comes after exactly end - start results, and when
\* start >= end after none, with nothing dispatched.
C22_GetAKSWitnessReturns ==
    /\ Searching ~> Returned
    /\ []((Returned /\ drv.ret = Nil) =>
              /\ drv.j - drv.start = max(drv.end - drv.start, 0)
              /\ Cardinality(received) = max(drv.end - drv.start, 0))
    /\ []((Returned /\ drv.start >= drv.end) =>
              /\ drv.ret = Nil
              /\ drv.i = drv.start
              /\ tested = {}
              /\ numberCh = <<>>)

\* GetAKSWitness has returned nil after more candidates than the two
\* channels and the one worker hold at once.
C22_Witness ==
    /\ Returned
    /\ drv.ret = Nil
    /\ drv.workers = 1
    /\ drv.end - drv.start > 3
    /\ Cardinality(received) = drv.end - drv.start

\* The driver is at numberCh <- &a and numberCh is full.
DriverWaitsForSpace == drv.pc = "send" /\ Len(numberCh) >= drv.workers

\* The w-th worker can take a step.
WorkerCanStep(w) ==
    \/ wrk[w].pc = "recv" /\ numberCh # <<>>
    \/ wrk[w].pc = "send" /\ Len(resultCh) < drv.workers

\* C23 as stated: in no reachable state is the driver suspended waiting for
\* space on the candidate channel.
C23_DriverNeverWaitsForSpace == ~DriverWaitsForSpace

\* C23 as amended: the driver's receive during dispatch is non-blocking,
\* and it comes to its send, a blocking one, only when no result is ready;
\* it may then wait for space on the candidate channel, and whenever it
\* does every worker can take a step.
C23_DriverWaitsOnlyForWorkers ==
    /\ [][(drv.pc = "loop" /\ drv'.pc = "send") => resultCh = <<>>]_vars
    /\ [](DriverWaitsForSpace => \A w \in DOMAIN wrk : WorkerCanStep(w))

\* The driver waits at its send: numberCh is full and the two workers are
\* at their sends.
C23_Witness ==
    /\ DriverWaitsForSpace
    /\ drv.workers = 2
    /\ \A w \in DOMAIN wrk : wrk[w].pc = "send"

\* The driver receives a result that is a witness.
ReceivesWitness ==
    /\ resultCh # <<>>
    /\ resultCh' = Tail(resultCh)
    /\ Head(resultCh).isWitness

\* C18: GetAKSWitness returns the a of the first result with isWitness
\* true that the driver receives, in the step that receives it, whatever
\* smaller candidates are still queued or under test.
C18_FirstReceivedWitnessReturned ==
    /\ [][ReceivesWitness => (drv'.pc = "done" /\ drv'.ret = Head(resultCh).a)]_vars
    /\ []((Returned /\ drv.ret # Nil) =>
              /\ drv.ret \in received
              /\ \A a \in received \ {drv.ret} : ~WitnessTable[drv.n][a])

\* The returned witness is not the smallest of the range: a smaller witness
\* was sent to a worker and its result has not been received.
C18_Witness ==
    /\ Returned
    /\ drv.ret # Nil
    /\ \E a \in drv.start..(drv.ret - 1) :
          /\ WitnessTable[drv.n][a]
          /\ a \notin received
          /\ a < drv.i

\* GetAKSWitness has reached its first loop.
Dispatching == drv.pc \in {"loop", "send", "done"}

\* The candidates sent on numberCh so far.
Dispatched == drv.start..(drv.i - 1)

\* The candidates that are on a channel, with a worker or with the driver.
Seen ==
    {numberCh[x] : x \in DOMAIN numberCh}
    \cup {wrk[w].a : w \in {v \in DOMAIN wrk : wrk[v].pc = "send"}}
    \cup {resultCh[x].a : x \in DOMAIN resultCh}
    \cup received

\* The number of places candidate c is at: on numberCh, with a worker that
\* has yet to send its result, on resultCh, received by the driver.
Places(c) ==
    Cardinality({x \in DOMAIN numberCh : numberCh[x] = c})
    + Cardinality({w \in DOMAIN wrk : wrk[w].pc = "send" /\ wrk[w].a = c})
    + Cardinality({x \in DOMAIN resultCh : resultCh[x].a = c})
    + (IF c \in received THEN 1 ELSE 0)

\* C28: the candidates put on numberCh are start, start + 1, ... in this
\* order, each once and as a copy that the later increments of i leave
\* alone; each is taken by one worker, which sends one result for it; and
\* the driver has received no more results than it has sent candidates.
C28_CandidatesOnceAndInOrder ==
    /\ [][Len(numberCh') > Len(numberCh) =>
              /\ numberCh' = Append(numberCh, drv.i)
              /\ drv'.i = drv.i + 1]_vars
    /\ [](Dispatching =>
              /\ \A x \in DOMAIN numberCh : numberCh[x] = drv.i - Len(numberCh) + x - 1
              /\ Seen \subseteq Dispatched
              /\ \A c \in Dispatched : Places(c) = 1
              /\ tested = Dispatched \ {numberCh[x] : x \in DOMAIN numberCh}
              /\ drv.j - drv.start = Cardinality(received)
              /\ drv.j <= drv.i)

\* Two candidates wait on numberCh while the driver's counter has moved
\* on, a third is with a worker or on resultCh, and a result was received.
C28_Witness ==
    /\ Dispatching
    /\ Len(numberCh) = 2
    /\ numberCh[1] < numberCh[2]
    /\ numberCh[2] < drv.i
    /\ received # {}
    /\ Cardinality(Seen) >= 4

(***************************************************************************)
(* main on the least n for which neither a factor below M nor M^2 > n      *)
(* decides, with the -start and -end flags.  isAKSWitness is not computed  *)
(* for these n: a worker's verdict is either one (Verdicts).               *)
(***************************************************************************)
\* The values of the -end flag for n: absent or small, M, and above M.
EndFlags(n) ==
    (-1..MaxEnd) \cup {CalculateAKSUpperBound(n, CalculateAKSModulus(n)) + d : d \in 0..1}

MainInit ==
    /\ \E n \in MinLargeN..MaxLargeN :
          \E end \in EndFlags(n), start \in -1..MaxStart :
              drv = newDriver("main", n, start, end, 1)
    /\ numberCh = <<>>
    /\ resultCh = <<>>
    /\ closed = FALSE
    /\ wrk = <<>>
    /\ tested = {}
    /\ received = {}
    /\ ArithIdle
    /\ PolyIdle

MainNext ==
    \/ Main
    \/ DriverSelectReceive
    \/ DriverSelectDefault
    \/ DriverSend
    \/ DriverDrainReceive
    \/ DriverReturnNil
    \/ \E w \in DOMAIN wrk : WorkerReceive(w)
    \/ \E w \in DOMAIN wrk : WorkerSend(w)
    \/ \E w \in DOMAIN wrk : WorkerExit(w)

SpecMain == MainInit /\ [][MainNext]_vars

\* main is in or past its call of GetAKSWitness.
MainSearches == drv.entry = "main" /\ drv.pc \in {"loop", "send", "done"}

\* The search of main returned nil.
MainFoundNone == drv.entry = "main" /\ Returned /\ drv.ret = Nil

\* C19: when no factor is found, M^2 > n does not hold and the search
\* returns nil, main reports "prime" only if the range was the full one,
\* and "no witnesses" in the range, never "prime", when start > 1 or
\* end < M; the search is made from 1 when -start is below 1 and up to M
\* when -end is absent or not positive.
C19_PrimeOnlyForFullRange ==
    /\ MainSearches =>
          /\ drv.start = max(drv.flags.start, 1)
          /\ drv.end = IF drv.flags.end <= 0 THEN drv.M ELSE drv.flags.end
          /\ drv.M * drv.M <= drv.n
    /\ MainFoundNone =>
          /\ \A a \in drv.start..(drv.end - 1) : a \in received
          /\ drv.report.kind = "prime" <=> (drv.start <= 1 /\ drv.end >= drv.M)
          /\ (drv.start > 1 \/ drv.end < drv.M) =>
                drv.report.kind = "no witness in range"

\* -start 2 and no -end: every a of [2, M) was tested, none was a witness,
\* and the report is not "prime".
C19_Witness ==
    /\ MainFoundNone
    /\ drv.flags = [start |-> 2, end |-> 0]
    /\ tested = 2..(drv.M - 1)
    /\ drv.report.kind = "no witness in range"

(***************************************************************************)
(* IntPoly: a polynomial is the list of its terms [coeff, deg].  A call    *)
(* that may panic gives [panic, terms]: the panic message, "" for none,    *)
(* and the terms it returns.                                               *)
(***************************************************************************)
returns(terms) == [panic |-> "", terms |-> terms]

panics(message) == [panic |-> message, terms |-> <<>>]

\* term[1].Cmp(terms[i-1][1]) < 0: a check that lets equal degrees pass.
degreeDecreases(deg, previous) == deg < previous

\* term[1].Cmp(terms[i-1][1]) <= 0.
degreeNotIncreasing(deg, previous) == deg <= previous

\* The loop of NewIntPoly from terms[i] on: the message of the first panic.
RECURSIVE newIntPolyPanic(_, _)
newIntPolyPanic(terms, i) ==
    IF i > Len(terms) THEN ""
    ELSE IF terms[i][1] = 0 THEN "zero coefficient"
    ELSE IF terms[i][2] < 0 THEN "negative degree"
    ELSE IF i > 1 /\ degreeNotIncreasing(terms[i][2], terms[i - 1][2])
         THEN "non-increasing degree"
    ELSE newIntPolyPanic(terms, i + 1)

NewIntPoly(terms) ==
    IF newIntPolyPanic(terms, 1) # "" THEN panics(newIntPolyPanic(terms, 1))
    ELSE returns([i \in 1..Len(terms) |-> [coeff |-> terms[i][1], deg |-> terms[i][2]]])

\* intMono.Mul.
intMonoMul(n, coeff, deg) == [coeff |-> n.coeff * coeff, deg |-> n.deg + deg]

\* intMono.Mod of a zero monomial: the coefficient in [0, |k|), and the
\* degree only when the coefficient is not zero.
intMonoMod(n, k) ==
    IF n.coeff % (IF k < 0 THEN -k ELSE k) = 0 THEN [coeff |-> 0, deg |-> 0]
    ELSE [coeff |-> n.coeff % (IF k < 0 THEN -k ELSE k), deg |-> n.deg]

\* The loops of Add from q.terms[j] and r.terms[k] on.
RECURSIVE addFrom(_, _, _, _)
addFrom(q, r, j, k) ==
    IF j > Len(q) THEN SubSeq(r, k, Len(r))
    ELSE IF k > Len(r) THEN SubSeq(q, j, Len(q))
    ELSE IF q[j].deg < r[k].deg THEN <<q[j]>> \o addFrom(q, r, j + 1, k)
    ELSE IF q[j].deg > r[k].deg THEN <<r[k]>> \o addFrom(q, r, j, k + 1)
    ELSE <<[coeff |-> q[j].coeff + r[k].coeff, deg |-> q[j].deg]>>
             \o addFrom(q, r, j + 1, k + 1)

IntPolyAdd(q, r) == addFrom(q, r, 1, 1)

\* The preconditions MulMono panics on.
mulMonoPanic(coeff, deg) ==
    IF coeff = 0 THEN "zero coefficient"
    ELSE IF deg < 0 THEN "negative degree"
    ELSE ""

IntPolyMulMono(q, coeff, deg) ==
    IF mulMonoPanic(coeff, deg) # "" THEN panics(mulMonoPanic(coeff, deg))
    ELSE returns([i \in 1..Len(q) |-> intMonoMul(q[i], coeff, deg)])

\* The loop of Mul from r.terms[i] on: t.MulMono(q, term), prod.Add(prod, t).
RECURSIVE mulFrom(_, _, _, _)
mulFrom(q, r, i, prod) ==
    IF i > Len(r) THEN returns(prod)
    ELSE IF IntPolyMulMono(q, r[i].coeff, r[i].deg).panic # ""
         THEN IntPolyMulMono(q, r[i].coeff, r[i].deg)
    ELSE mulFrom(q, r, i + 1,
                 IntPolyAdd(prod, IntPolyMulMono(q, r[i].coeff, r[i].deg).terms))

IntPolyMul(q, r) ==
    IF Len(r) > Len(q) THEN mulFrom(r, q, 1, <<>>) ELSE mulFrom(q, r, 1, <<>>)

newIntPolyIdentity == NewIntPoly(<<<<1, 0>>>>).terms

\* if k.Bit(i) != 0 { pow.Mul(pow, q) }, after the squaring sq.
intPolyPowBit(sq, q, k, i) ==
    IF sq.panic # "" \/ Bit(k, i) = 0 THEN sq ELSE IntPolyMul(sq.terms, q)

\* The loop of Pow from bit i of k down.
RECURSIVE intPolyPowLoop(_, _, _, _)
intPolyPowLoop(pow, q, k, i) ==
    IF i < 0 \/ pow.panic # "" THEN pow
    ELSE intPolyPowLoop(intPolyPowBit(IntPolyMul(pow.terms, pow.terms), q, k, i),
                        q, k, i - 1)

\* The precondition Pow panics on.
powPanic(k) == IF k < 0 THEN "negative power" ELSE ""

IntPolyPow(q, k) ==
    IF powPanic(k) # "" THEN panics(powPanic(k))
    ELSE intPolyPowLoop(returns(newIntPolyIdentity), q, k, BitLen(k) - 1)

\* The precondition Mod panics on.
modPanic(k) == IF k = 0 THEN "zero modulus" ELSE ""

IntPolyMod(q, k) ==
    IF modPanic(k) # "" THEN panics(modPanic(k))
    ELSE returns(SelectSeq([j \in 1..Len(q) |-> intMonoMod(q[j], k)],
                           LAMBDA term : term.coeff # 0))

(***************************************************************************)
(* Calls of floorRoot, trialDivide and the IntPoly functions with          *)
(* arguments within and outside their preconditions.                       *)
(***************************************************************************)
TermArguments == (-MaxCoeff..MaxCoeff) \X (-1..MaxDeg)

TermLists == UNION {[1..len -> TermArguments] : len \in 0..MaxTerms}

\* The polynomials NewIntPoly returns.
IntPolys == {NewIntPoly(terms).terms : terms \in {l \in TermLists : NewIntPoly(l).panic = ""}}

PreconditionCalls ==
    [fn : {"floorRoot"}, x : -MaxBelow..MaxRadicand, k : -MaxBelow..MaxIndex]
    \cup [fn : {"trialDivide"}, n : -MaxBelow..MaxDividend,
          stopAt : Never..MaxStopAt, upperBound : {Nil}]
    \cup [fn : {"NewIntPoly"}, terms : TermLists]
    \cup [fn : {"MulMono"}, q : IntPolys, coeff : -MaxCoeff..MaxCoeff, deg : -MaxBelow..MaxDeg]
    \cup [fn : {"Pow"}, q : IntPolys, k : -MaxBelow..MaxPower]
    \cup [fn : {"Mod"}, q : IntPolys, k : -MaxModulus..MaxModulus]

PreconditionInit ==
    /\ call \in PreconditionCalls
    /\ ret = Nil
    /\ apc = "call"
    /\ PolyIdle
    /\ SearchIdle

\* NewIntPoly panics: nothing is returned.
NewIntPolyPanic ==
    /\ apc = "call"
    /\ call.fn = "NewIntPoly"
    /\ NewIntPoly(call.terms).panic # ""
    /\ apc' = "panic"
    /\ UNCHANGED <<call, ret, polyVars, searchVars>>

\* NewIntPoly returns its polynomial.
NewIntPolyReturn ==
    /\ apc = "call"
    /\ call.fn = "NewIntPoly"
    /\ NewIntPoly(call.terms).panic = ""
    /\ ret' = NewIntPoly(call.terms).terms
    /\ apc' = "done"
    /\ UNCHANGED <<call, polyVars, searchVars>>

\* MulMono panics: nothing is returned.
MulMonoPanic ==
    /\ apc = "call"
    /\ call.fn = "MulMono"
    /\ IntPolyMulMono(call.q, call.coeff, call.deg).panic # ""
    /\ apc' = "panic"
    /\ UNCHANGED <<call, ret, polyVars, searchVars>>

\* MulMono returns its polynomial.
MulMonoReturn ==
    /\ apc = "call"
    /\ call.fn = "MulMono"
    /\ IntPolyMulMono(call.q, call.coeff, call.deg).panic = ""
    /\ ret' = IntPolyMulMono(call.q, call.coeff, call.deg).terms
    /\ apc' = "done"
    /\ UNCHANGED <<call, polyVars, searchVars>>

\* Pow panics: nothing is returned.
IntPolyPowPanic ==
    /\ apc = "call"
    /\ call.fn = "Pow"
    /\ IntPolyPow(call.q, call.k).panic # ""
    /\ apc' = "panic"
    /\ UNCHANGED <<call, ret, polyVars, searchVars>>

\* Pow returns its polynomial.
IntPolyPowReturn ==
    /\ apc = "call"
    /\ call.fn = "Pow"
    /\ IntPolyPow(call.q, call.k).panic = ""
    /\ ret' = IntPolyPow(call.q, call.k).terms
    /\ apc' = "done"
    /\ UNCHANGED <<call, polyVars, searchVars>>

\* Mod panics: nothing is returned.
IntPolyModPanic ==
    /\ apc = "call"
    /\ call.fn = "Mod"
    /\ IntPolyMod(call.q, call.k).panic # ""
    /\ apc' = "panic"
    /\ UNCHANGED <<call, ret, polyVars, searchVars>>

\* Mod returns its polynomial.
IntPolyModReturn ==
    /\ apc = "call"
    /\ call.fn = "Mod"
    /\ IntPolyMod(call.q, call.k).panic = ""
    /\ ret' = IntPolyMod(call.q, call.k).terms
    /\ apc' = "done"
    /\ UNCHANGED <<call, polyVars, searchVars>>

PreconditionNext ==
    \/ FloorRootPanic
    \/ FloorRootReturn
    \/ TrialDividePanic
    \/ TrialDivideReturn
    \/ NewIntPolyPanic
    \/ NewIntPolyReturn
    \/ MulMonoPanic
    \/ MulMonoReturn
    \/ IntPolyPowPanic
    \/ IntPolyPowReturn
    \/ IntPolyModPanic
    \/ IntPolyModReturn

SpecPrecondition == PreconditionInit /\ [][PreconditionNext]_vars

\* The term list has a zero coefficient, a negative degree, or a degree
\* that is not above the one before it.
BadTerms(terms) ==
    \/ \E i \in 1..Len(terms) : terms[i][1] = 0 \/ terms[i][2] < 0
    \/ \E i \in 2..Len(terms) : terms[i][2] <= terms[i - 1][2]

\* The call violates one of the listed preconditions.
ViolatesPrecondition(c) ==
    CASE c.fn = "floorRoot" -> c.x < 0 \/ c.k <= 0
      [] c.fn = "trialDivide" -> c.n < 0
      [] c.fn = "NewIntPoly" -> BadTerms(c.terms)
      [] c.fn = "MulMono" -> c.coeff = 0 \/ c.deg < 0
      [] c.fn = "Pow" -> c.k < 0
      [] c.fn = "Mod" -> c.k = 0

\* C20: a call that violates a listed precondition (floorRoot with x < 0 or
\* k <= 0, trialDivide with n < 0, NewIntPoly with a zero coefficient, a
\* negative degree or a non-increasing degree, MulMono with a zero
\* coefficient or a negative degree, Pow with a negative power, Mod with a
\* zero modulus) ends in a panic, with no result and no call of the callback.
C20_ViolationPanics ==
    (ViolatesPrecondition(call) /\ apc # "call") => (apc = "panic" /\ ret = Nil)

\* NewIntPoly of two terms of the same degree has panicked.
C20_Witness ==
    /\ apc = "panic"
    /\ ret = Nil
    /\ call.fn = "NewIntPoly"
    /\ call.terms = <<<<1, 1>>, <<2, 1>>>>

(***************************************************************************)
(* IntPoly with its storage.  An IntPoly is [terms, len]: terms is the     *)
(* whole backing array of p.terms (its length is cap(p.terms)) and len is  *)
(* len(p.terms), so terms[1..len] are the terms of the polynomial and the  *)
(* rest is space left over from earlier values.  A function that may panic *)
(* gives [panic, poly].                                                    *)
(***************************************************************************)
\* The zero value of an intMono.
zeroMono == [coeff |-> 0, deg |-> 0]

\* The zero value of an IntPoly.
emptyPoly == [terms |-> <<>>, len |-> 0]

\* p.terms, an array of exactly the given terms (NewIntPoly).
stored(terms) == [terms |-> terms, len |-> Len(terms)]

\* p.terms as a list.
termsOf(p) == SubSeq(p.terms, 1, p.len)

\* n <= cap(terms): termList.make reuses the space.
reusesSpace(terms, n) == n <= Len(terms)

\* termList.make(n): the backing array of the list it returns.
termListMake(terms, n) ==
    IF reusesSpace(terms, n) THEN terms ELSE [x \in 1..n |-> zeroMono]

\* &q.terms[j] read while terms is being written: the array written when it
\* is q's own.
readTerm(terms, q, shared, j) == IF shared THEN terms[j] ELSE q.terms[j]

\* IntPoly.Set: the copy of q's terms into the array.
copyInto(terms, q) ==
    [x \in 1..Len(terms) |-> IF x <= q.len THEN q.terms[x] ELSE terms[x]]

\* p.Set(q); same: p == q.
IntPolySetIn(p, q, same) ==
    IF same THEN p
    ELSE [terms |-> copyInto(termListMake(p.terms, q.len), q), len |-> q.len]

\* The term Add writes for qTerm and rTerm.
addTerm(qTerm, rTerm) ==
    IF qTerm.deg < rTerm.deg THEN qTerm
    ELSE IF qTerm.deg > rTerm.deg THEN rTerm
    ELSE [coeff |-> qTerm.coeff + rTerm.coeff, deg |-> qTerm.deg]

\* The loops of Add with terms[i] the next to write and q.terms[j],
\* r.terms[k] the next to read.
RECURSIVE addInto(_, _, _, _, _, _, _, _)
addInto(terms, q, r, qShared, rShared, i, j, k) ==
    IF j <= q.len /\ k <= r.len
    THEN addInto([terms EXCEPT ![i] = addTerm(readTerm(terms, q, qShared, j),
                                              readTerm(terms, r, rShared, k))],
                 q, r, qShared, rShared, i + 1,
                 IF readTerm(terms, q, qShared, j).deg <= readTerm(terms, r, rShared, k).deg
                 THEN j + 1 ELSE j,
                 IF readTerm(terms, q, qShared, j).deg >= readTerm(terms, r, rShared, k).deg
                 THEN k + 1 ELSE k)
    ELSE IF j <= q.len
    THEN addInto([terms EXCEPT ![i] = readTerm(terms, q, qShared, j)],
                 q, r, qShared, rShared, i + 1, j + 1, k)
    ELSE IF k <= r.len
    THEN addInto([terms EXCEPT ![i] = readTerm(terms, r, rShared, k)],
                 q, r, qShared, rShared, i + 1, j, k + 1)
    ELSE [terms |-> terms, len |-> i - 1]

\* p.Add(q, r); pIsQ: p == q, pIsR: p == r.
IntPolyAddIn(p, q, r, pIsQ, pIsR) ==
    addInto(termListMake(p.terms, q.len + r.len), q, r,
            pIsQ /\ reusesSpace(p.terms, q.len + r.len),
            pIsR /\ reusesSpace(p.terms, q.len + r.len), 1, 1, 1)

\* The loop of MulMono.
mulMonoInto(terms, q, coeff, deg) ==
    [x \in 1..Len(terms) |->
        IF x <= q.len THEN intMonoMul(q.terms[x], coeff, deg) ELSE terms[x]]

\* p.MulMono(q, coeff, deg).
IntPolyMulMonoIn(p, q, coeff, deg) ==
    IF mulMonoPanic(coeff, deg) # "" THEN [panic |-> mulMonoPanic(coeff, deg), poly |-> p]
    ELSE [panic |-> "",
          poly |-> [terms |-> mulMonoInto(termListMake(p.terms, q.len), q, coeff, deg),
                    len |-> q.len]]

\* The loop of Mul from r.terms[i] on: t.MulMono(q, term), prod.Add(&prod, &t).
RECURSIVE mulInto(_, _, _, _)
mulInto(prod, q, r, i) ==
    IF i > r.len THEN [panic |-> "", poly |-> prod]
    ELSE IF mulMonoPanic(r.terms[i].coeff, r.terms[i].deg) # ""
    THEN [panic |-> mulMonoPanic(r.terms[i].coeff, r.terms[i].deg), poly |-> prod]
    ELSE mulInto(IntPolyAddIn(prod, prod,
                              IntPolyMulMonoIn(emptyPoly, q, r.terms[i].coeff,
                                               r.terms[i].deg).poly,
                              TRUE, FALSE),
                 q, r, i + 1)

\* prod of p.Mul(q, r), which ends with *p = prod.
IntPolyMulIn(q, r) ==
    IF r.len > q.len THEN mulInto(emptyPoly, r, q, 1) ELSE mulInto(emptyPoly, q, r, 1)

\* if k.Bit(i) != 0 { pow.Mul(pow, q) }, after the squaring sq.
powBitIn(sq, q, k, i) ==
    IF sq.panic # "" \/ Bit(k, i) = 0 THEN sq ELSE IntPolyMulIn(sq.poly, q)

\* The loop of Pow from bit i of k down.
RECURSIVE powInto(_, _, _, _)
powInto(pow, q, k, i) ==
    IF i < 0 \/ pow.panic # "" THEN pow
    ELSE powInto(powBitIn(IntPolyMulIn(pow.poly, pow.poly), q, k, i), q, k, i - 1)

\* pow of p.Pow(q, k), which ends with *p = *pow.
IntPolyPowIn(q, k) ==
    IF powPanic(k) # "" THEN [panic |-> powPanic(k), poly |-> emptyPoly]
    ELSE powInto([panic |-> "", poly |-> stored(newIntPolyIdentity)], q, k, BitLen(k) - 1)

\* The loop of Mod with terms[i] the next to write and q.terms[j] the next
\* to read.
RECURSIVE modInto(_, _, _, _, _, _)
modInto(terms, q, shared, k, i, j) ==
    IF j > q.len THEN [terms |-> terms, len |-> i - 1]
    ELSE IF intMonoMod(readTerm(terms, q, shared, j), k).coeff # 0
    THEN modInto([terms EXCEPT ![i] = intMonoMod(readTerm(terms, q, shared, j), k)],
                 q, shared, k, i + 1, j + 1)
    ELSE modInto(terms, q, shared, k, i, j + 1)

\* p.Mod(q, k); same: p == q.
IntPolyModIn(p, q, k, same) ==
    IF modPanic(k) # "" THEN [panic |-> modPanic(k), poly |-> p]
    ELSE [panic |-> "",
          poly |-> modInto(termListMake(p.terms, q.len), q,
                           same /\ reusesSpace(p.terms, q.len), k, 1, 1)]

\* p.Eq(q).
IntPolyEq(p, q) ==
    /\ p.len = q.len
    /\ \A i \in 1..p.len : p.terms[i].coeff = q.terms[i].coeff
                           /\ p.terms[i].deg = q.terms[i].deg

(***************************************************************************)
(* Calls of Set, Add, MulMono, Mul, Pow and Mod on IntPoly variables that  *)
(* NewIntPoly has built; the receiver and the arguments may be the same    *)
(* variable.                                                               *)
(***************************************************************************)
\* The IntPoly variables.
StoreObjects == 1..2

\* The polynomials NewIntPoly builds them from.
StoredPolys ==
    {stored(terms) : terms \in
        {t \in IntPolys : \A i \in 1..Len(t) :
            /\ t[i].coeff \in -MaxStoreCoeff..MaxStoreCoeff
            /\ t[i].deg <= MaxStoreDeg}}

\* The coefficients and degrees MulMono is called with.
StoreMonos == ((-MaxStoreCoeff..MaxStoreCoeff) \ {0}) \X (0..MaxStoreDeg)

IntPolyInit ==
    /\ heap \in [StoreObjects -> StoredPolys]
    /\ last = [op |-> "none"]
    /\ ops = 0
    /\ polyN = 0
    /\ polyR = 0
    /\ word = <<>>
    /\ ArithIdle
    /\ SearchIdle

\* The call made, the variables before it and whether it panicked.
called(op, p, q, r, panic) ==
    [op |-> op, p |-> p, q |-> q, r |-> r, pre |-> heap, panic |-> panic]

\* The variables after a call that sets p to poly unless it panics.
assigned(p, result) ==
    IF result.panic # "" THEN heap ELSE [heap EXCEPT ![p] = result.poly]

IntPolySetCall ==
    /\ ops < MaxStoreOps
    /\ \E p \in StoreObjects, q \in StoreObjects :
          /\ heap' = [heap EXCEPT ![p] = IntPolySetIn(heap[p], heap[q], p = q)]
          /\ last' = called("Set", p, q, q, "")
    /\ ops' = ops + 1
    /\ UNCHANGED <<polyN, polyR, word, arithVars, searchVars>>

IntPolyAddCall ==
    /\ ops < MaxStoreOps
    /\ \E p \in StoreObjects, q \in StoreObjects, r \in StoreObjects :
          /\ heap' = [heap EXCEPT ![p] = IntPolyAddIn(heap[p], heap[q], heap[r],
                                                      p = q, p = r)]
          /\ last' = called("Add", p, q, r, "")
    /\ ops' = ops + 1
    /\ UNCHANGED <<polyN, polyR, word, arithVars, searchVars>>

IntPolyMulMonoCall ==
    /\ ops < MaxStoreOps
    /\ \E p \in StoreObjects, q \in StoreObjects, mono \in StoreMonos :
          /\ heap' = assigned(p, IntPolyMulMonoIn(heap[p], heap[q], mono[1], mono[2]))
          /\ last' = called("MulMono", p, q, q,
                            IntPolyMulMonoIn(heap[p], heap[q], mono[1], mono[2]).panic)
    /\ ops' = ops + 1
    /\ UNCHANGED <<polyN, polyR, word, arithVars, searchVars>>

IntPolyMulCall ==
    /\ ops < MaxStoreOps
    /\ \E p \in StoreObjects, q \in StoreObjects, r \in StoreObjects :
          /\ heap' = assigned(p, IntPolyMulIn(heap[q], heap[r]))
          /\ last' = called("Mul", p, q, r, IntPolyMulIn(heap[q], heap[r]).panic)
    /\ ops' = ops + 1
    /\ UNCHANGED <<polyN, polyR, word, arithVars, searchVars>>

IntPolyPowCall ==
    /\ ops < MaxStoreOps
    /\ \E p \in StoreObjects, q \in StoreObjects, k \in 0..MaxStorePower :
          /\ heap' = assigned(p, IntPolyPowIn(heap[q], k))
          /\ last' = called("Pow", p, q, q, IntPolyPowIn(heap[q], k).panic)
    /\ ops' = ops + 1
    /\ UNCHANGED <<polyN, polyR, word, arithVars, searchVars>>

IntPolyModCall ==
    /\ ops < MaxStoreOps
    /\ \E p \in StoreObjects, q \in StoreObjects, k \in 1..MaxModulus :
          /\ heap' = assigned(p, IntPolyModIn(heap[p], heap[q], k, p = q))
          /\ last' = called("Mod", p, q, q, "")
    /\ ops' = ops + 1
    /\ UNCHANGED <<polyN, polyR, word, arithVars, searchVars>>

IntPolyNext ==
    \/ IntPolySetCall
    \/ IntPolyAddCall
    \/ IntPolyMulMonoCall
    \/ IntPolyMulCall
    \/ IntPolyPowCall
    \/ IntPolyModCall

SpecIntPoly == IntPolyInit /\ [][IntPolyNext]_vars

\* The coefficient of X^d in a list of terms.
RECURSIVE CoefficientAt(_, _, _)
CoefficientAt(terms, d, i) ==
    IF i > Len(terms) THEN 0
    ELSE (IF terms[i].deg = d THEN terms[i].coeff ELSE 0) + CoefficientAt(terms, d, i + 1)

\* The degrees of a list of terms.
DegreesOf(terms) == {terms[i].deg : i \in 1..Len(terms)}

\* The list of terms sum stands for the sum of the polynomials of q and r.
IsSum(sum, q, r) ==
    \A d \in DegreesOf(sum) \cup DegreesOf(q) \cup DegreesOf(r) :
        CoefficientAt(sum, d, 1) = CoefficientAt(q, d, 1) + CoefficientAt(r, d, 1)

\* Add has written its result into the array of an argument.
AddReusedArgument ==
    /\ last.op = "Add"
    /\ last.p \in {last.q, last.r}
    /\ reusesSpace(last.pre[last.p].terms, last.pre[last.q].len + last.pre[last.r].len)

\* C26: after p.Add(q, r) the terms of p are the term-by-term sum of the
\* terms q and r had, also when p is q or r or both and whatever the
\* capacity of p's array.
C26_AddIsExactUnderAliasing ==
    last.op = "Add" =>
        IsSum(termsOf(heap[last.p]), termsOf(last.pre[last.q]), termsOf(last.pre[last.r]))

\* p.Add(p, r) with room in p's array for both: the first term of r has the
\* lower degree and is written over the first term of p before that is read.
C26_Witness ==
    /\ AddReusedArgument
    /\ last.p = last.q
    /\ last.p # last.r
    /\ termsOf(last.pre[last.p]) = <<[coeff |-> 2, deg |-> 1]>>
    /\ termsOf(last.pre[last.r]) = <<[coeff |-> 1, deg |-> 0]>>
    /\ termsOf(heap[last.p]) = <<[coeff |-> 1, deg |-> 0], [coeff |-> 1, deg |-> 0]>>

\* Add is exact whenever it does not write into the array of an argument,
\* and when both arguments are the receiver.
AddIsExactWithoutReuse ==
    (last.op = "Add" /\ (~AddReusedArgument \/ last.q = last.r)) =>
        C26_AddIsExactUnderAliasing

\* The terms have non-zero coefficients and strictly ascending degrees.
WellFormed(terms) ==
    /\ \A i \in 1..Len(terms) : terms[i].coeff # 0
    /\ \A i \in 2..Len(terms) : terms[i].deg > terms[i - 1].deg

\* The degrees are strictly ascending.
Ascending(terms) == \A i \in 2..Len(terms) : terms[i].deg > terms[i - 1].deg

\* Two lists of terms stand for the same polynomial.
SamePolynomial(a, b) ==
    \A d \in DegreesOf(a) \cup DegreesOf(b) : CoefficientAt(a, d, 1) = CoefficientAt(b, d, 1)

\* C27: every IntPoly reached by Set, Add, MulMono, Mul, Pow and Mod from
\* the results of NewIntPoly has non-zero coefficients and strictly ascending
\* degrees, so that Eq holds of two of them exactly when they are the same
\* polynomial; a sum whose coefficients cancel at a degree has no term there.
C27_RepresentationInvariant ==
    /\ \A o \in StoreObjects : WellFormed(termsOf(heap[o]))
    /\ \A o1 \in StoreObjects, o2 \in StoreObjects :
          IntPolyEq(heap[o1], heap[o2])
              <=> SamePolynomial(termsOf(heap[o1]), termsOf(heap[o2]))

\* X + (-X) written into a fresh array: the sum is the one term 0*X, which
\* is the zero polynomial and is not Eq to the IntPoly without terms.
C27_Witness ==
    /\ last.op = "Add"
    /\ ~AddReusedArgument
    /\ termsOf(last.pre[last.q]) = <<[coeff |-> 1, deg |-> 1]>>
    /\ termsOf(last.pre[last.r]) = <<[coeff |-> -1, deg |-> 1]>>
    /\ termsOf(heap[last.p]) = <<[coeff |-> 0, deg |-> 1]>>
    /\ SamePolynomial(termsOf(heap[last.p]), <<>>)
    /\ ~IntPolyEq(heap[last.p], emptyPoly)

\* Set, MulMono and Mod keep the invariant, and Add, where it does not
\* write into the array of an argument, keeps the degrees ascending.
KeptBySetMulMonoMod ==
    /\ (/\ last.op \in {"Set", "MulMono", "Mod"}
        /\ \A o \in StoreObjects : WellFormed(termsOf(last.pre[o])))
           => \A o \in StoreObjects : WellFormed(termsOf(heap[o]))
    /\ (/\ last.op = "Add"
        /\ ~AddReusedArgument
        /\ \A o \in StoreObjects : Ascending(termsOf(last.pre[o])))
           => \A o \in StoreObjects : Ascending(termsOf(heap[o]))

(***************************************************************************)
(* The loops of CalculateAKSModulus and of processPrimeFactor, one         *)
(* iteration a step.  ret holds the locals: r and the bounds of the        *)
(* search, or o, x and the number of iterations made.                      *)
(***************************************************************************)
\* x.Exp(a, &x, &n) with the base alone: x = a mod n.
firstPowerOfBase(a, t, q, e, n) == a % n

\* x.Exp(q, e, nil); x.Div(t, &x); x.Exp(a, &x, &n): x = a^(t/q^e) mod n.
firstPower(a, t, q, e, n) == ModExp(a, t \div IntExp(q, e), n)

\* The (q, e) that calculateMultiplicativeOrderPrimePower(a, p, k) calls
\* processPrimeFactor with: (p, k - 1) when k > 1, and the factors of p - 1.
factorsProcessed(p, k) ==
    (IF k > 1 THEN {<<p, k - 1>>} ELSE {})
    \cup {trialDivide(p - 1, Never, Nil)[i] :
             i \in 1..Len(trialDivide(p - 1, Never, Nil))}

\* The calls of processPrimeFactor, for a that p divides and does not.
PrimeFactorCalls ==
    {c \in [fn : {"processPrimeFactor"}, a : 0..MaxOrderA, p : OrderPrimes,
            k : 1..MaxLoopK, q : 2..MaxOrderP, e : 1..MaxLoopK] :
        <<c.q, c.e>> \in factorsProcessed(c.p, c.k)}

OrderLoopInit ==
    /\ call \in ModulusCalls \cup PrimeFactorCalls
    /\ ret = 0
    /\ apc = "call"
    /\ PolyIdle
    /\ SearchIdle

\* CalculateAKSModulus up to its loop.
ModulusEnter ==
    /\ apc = "call"
    /\ call.fn = "CalculateAKSModulus"
    /\ ret' = [r |-> BitLen(call.n) * BitLen(call.n) + 2,
               ceilLgNSq |-> BitLen(call.n) * BitLen(call.n),
               rUpperBound |-> calculateAKSModulusUpperBound(call.n)]
    /\ apc' = "search"
    /\ UNCHANGED <<call, polyVars, searchVars>>

\* One test of the loop: the panic after it, a continue for an r that is
\* not coprime to n, or the call of calculateMultiplicativeOrder(n, r).
ModulusIterate ==
    /\ apc = "search"
    /\ IF ret.r >= ret.rUpperBound THEN apc' = "panic" /\ ret' = ret
       ELSE IF GCD(call.n, ret.r) # 1 THEN apc' = "search" /\ ret' = [ret EXCEPT !.r = ret.r + 1]
       ELSE apc' = "order" /\ ret' = ret
    /\ UNCHANGED <<call, polyVars, searchVars>>

\* calculateMultiplicativeOrder(n, r) has returned o: return r, or go on.
ModulusOrderReturn ==
    /\ apc = "order"
    /\ IF calculateMultiplicativeOrder(call.n, ret.r) > ret.ceilLgNSq
       THEN apc' = "done" /\ ret' = ret
       ELSE apc' = "search" /\ ret' = [ret EXCEPT !.r = ret.r + 1]
    /\ UNCHANGED <<call, polyVars, searchVars>>

\* processPrimeFactor(q, e) up to its loop, with n = p^k and t = Phi(p^k).
PrimeFactorEnter ==
    /\ apc = "call"
    /\ call.fn = "processPrimeFactor"
    /\ ret' = [o |-> 1,
               x |-> firstPower(call.a, calculateEulerPhiPrimePower(call.p, call.k),
                                call.q, call.e, IntExp(call.p, call.k)),
               iterations |-> 0]
    /\ apc' = "loop"
    /\ UNCHANGED <<call, polyVars, searchVars>>

\* for x.Cmp(one) != 0 { o.Mul(o, q); x.Exp(&x, q, &n) }: one iteration.
PrimeFactorIterate ==
    /\ apc = "loop"
    /\ ret.x # 1
    /\ ret.iterations < MaxIterations
    /\ ret' = [o |-> ret.o * call.q,
               x |-> ModExp(ret.x, call.q, IntExp(call.p, call.k)),
               iterations |-> ret.iterations + 1]
    /\ UNCHANGED <<call, apc, polyVars, searchVars>>

\* The loop ends with x = 1.
PrimeFactorReturn ==
    /\ apc = "loop"
    /\ ret.x = 1
    /\ apc' = "done"
    /\ UNCHANGED <<call, ret, polyVars, searchVars>>

OrderLoopNext ==
    \/ ModulusEnter
    \/ ModulusIterate
    \/ ModulusOrderReturn
    \/ PrimeFactorEnter
    \/ PrimeFactorIterate
    \/ PrimeFactorReturn

SpecOrderLoop == OrderLoopInit /\ [][OrderLoopNext]_vars

\* The loop of processPrimeFactor is running or has ended.
InPrimeFactorLoop == call.fn = "processPrimeFactor" /\ apc \in {"loop", "done"}

\* C30: CalculateAKSModulus calls calculateMultiplicativeOrder(n, r) only for
\* r coprime to n, so that no prime of r divides n; for a that p does not
\* divide the loop of processPrimeFactor(q, e) ends with x = 1 after at most
\* e iterations; and for a that p divides x is never 1.
C30_OrderLoopTerminates ==
    /\ apc = "order" =>
          /\ GCD(call.n, ret.r) = 1
          /\ \A i \in 1..Len(trialDivide(ret.r, Never, Nil)) :
                call.n % trialDivide(ret.r, Never, Nil)[i][1] # 0
    /\ (InPrimeFactorLoop /\ call.a % call.p # 0) =>
          /\ ret.iterations <= call.e
          /\ ret.iterations = call.e => ret.x = 1
    /\ (InPrimeFactorLoop /\ call.a % call.p = 0) => ret.x # 1

\* The loop has ended after exactly e = 2 iterations, for a that p does not
\* divide.
C30_Witness ==
    /\ call.fn = "processPrimeFactor"
    /\ apc = "done"
    /\ call.a % call.p # 0
    /\ call.e = 2
    /\ ret.iterations = 2
    /\ ret.o = call.q * call.q

\* For a that p divides the loop is still running after more than e
\* iterations.
LoopRunsOn ==
    /\ InPrimeFactorLoop
    /\ call.a % call.p = 0
    /\ apc = "loop"
    /\ ret.iterations = MaxIterations
    /\ ret.iterations > call.e

\* The search has skipped an r that is not coprime to n and then called
\* calculateMultiplicativeOrder.
SkippedThenCalled ==
    /\ apc = "order"
    /\ GCD(call.n, ret.r - 1) # 1
    /\ ret.r - 1 >= ret.ceilLgNSq + 2

====
